---- MODULE Spec2Model ----
(***************************************************************************)
(* Verification model of the heaven_canceller ingestion pipeline:          *)
(*   - TransactionConverter::convert (event extraction),                   *)
(*   - the archive block parser (scanner, file processor, flush pool,      *)
(*     processed tracker),                                                 *)
(*   - the reconciliation engine (SyncChecker).                            *)
(***************************************************************************)
EXTENDS Integers, Sequences, FiniteSets, TLC

VARIABLES
    tx,          \* convert: the instruction list of the transaction
    rows,        \* convert: the eight caller-provided output vectors
    cpc,         \* convert: "start" before the call, "done" after it
    files,       \* archive: the entries of data_dir
    meta,        \* archive: content of each <prefix>.meta ("corrupt" or the SlotMeta list)
    enable_watch,                     \* Config.enable_watch
    max_concurrent_clickhouse_tasks,  \* Config.max_concurrent_clickhouse_tasks
    log,         \* processed_files.log: the sequence of its lines
    store,       \* the analytical store: the row groups inserted so far
    spc,         \* BlockParserService: where the service is
    processed_set,    \* ProcessedTracker.processed_set
    pending,     \* process_pending_files: pending_pairs still to process
    processed_count,  \* process_pending_files: processed_count
    result,      \* the value the last process_pending_files returned (-1: none yet)
    cur,         \* process_file_pair: prefix of the pair in work (NoPrefix: none)
    slot_i,      \* process_file_pair: position in slot_meta of the next entry
    batch,       \* FileProcessor: the eight *_batch vectors
    permits,     \* AsyncPool: number of permits of its semaphore
    queued,      \* AsyncPool: tasks spawned and waiting for a permit
    active,      \* AsyncPool: tasks holding a permit
    local_table,    \* SyncChecker: rows of the local table
    remote_table,   \* SyncChecker: rows of the remote table
    start_ts,       \* SyncChecker: start of the window (inclusive)
    end_ts,         \* SyncChecker: end of the window (exclusive)
    diff_hours,     \* check_and_sync: differing hours still to visit
    diff_minutes,   \* compare_and_sync_minutely: minutes still to replay
    errors,         \* SyncStats.errors
    synced_records, \* SyncStats.synced_records
    ypc,            \* check_and_sync: "start", "hours", "minutes", "done"
    stats_diff_hours,    \* SyncStats.diff_hours
    stats_diff_minutes,  \* SyncStats.diff_minutes
    diff_count,     \* compare_and_sync_minutely: diff_count
    mappings_left,  \* check_and_sync: table mappings after the current one
    exit_code,      \* main: the exit status of the process (-1: still running)
    tables_before,  \* the two tables as they were when their mapping was taken up
    scan_dir,       \* FileScanner: the entries of data_dir
    scan_result,    \* FileScanner: the Vec<FilePair> scan_available_files returned
    kpc,            \* FileScanner: "start", "done" (Ok), "error" (Err)
    lpc,            \* TransactionSubscriberService: where the process is
    msg_no,         \* live: number of bus messages received so far
    receiver,       \* live: ProcessedEvents sent on the channel, not yet received
    batches,        \* batch_flusher_task: its BatchAccumulator
    live_permits,   \* live AsyncPool: number of permits
    live_queued,    \* live AsyncPool: tasks waiting for a permit
    live_active,    \* live AsyncPool: tasks holding a permit
    live_store,     \* the analytical store: rows inserted by the live path
    message,        \* run: the message taken from the subscriber last (<<>>: none)
    bpc,            \* handle_block: "start", "convert", "check", "done"
    block_txs,      \* handle_block: combined_block.transactions
    tx_i,           \* handle_block: position of the next transaction
    event_batch,    \* FileProcessor: the eight *_event_batch vectors
    flushes,        \* FileProcessor: the flush_all_batches calls made so far
    tpc,            \* ProcessedTracker: the operation called last
    log_lines,      \* ProcessedTracker: the lines of processed_files.log
    tracker_set,    \* ProcessedTracker.processed_set
    marked,         \* the prefixes passed to mark_as_processed / mark_batch_as_processed
    log_before,     \* the lines of the log at the start, then before the last cleanup_log
    log_tmp,        \* cleanup_log: the lines of processed_files.log.tmp
    cleanups,       \* the number of cleanup_log calls that returned Ok
    rpc,            \* sync_directory: "start", "loop", "exec", "ok", "err"
    local_dir_exists,  \* sync_directory: local_dir.exists()
    attempt,        \* sync_directory: the loop variable
    rsync_calls,    \* the outcomes of the execute_rsync calls made so far
    sleeps,         \* the delays slept so far, in seconds
    last_error,     \* sync_directory: last_error (<<>>: None)
    sync_result,    \* what sync_directory returned (<<>>: Ok or not returned)
    ppc,         \* export/import chain: position
    pq_rows,     \* the rows fetched for the day
    pq_batch,    \* the columnar batch made of them
    pq_file,     \* the parquet file written: its row groups
    pq_read,     \* what read_parquet returned
    pq_out,      \* the rows the importer writes to the store
    epc,         \* daily export: position
    overflow_checks,  \* the build: arithmetic overflow panics (debug) or wraps (release)
    ex_table,    \* the timestamps of the rows of the table
    ex_day,      \* current_date, as days since 1970-01-01
    ex_today,    \* today
    ex_files,    \* the exported days, each with the rows selected for it
    mpc,         \* remote pipeline: position
    import_mappings,       \* RemoteConfig.import_mappings: the configured folders
    table_event_mappings,  \* RemoteConfig.table_event_mappings: folder -> event type
    rm_dirs,     \* remote_storage_path: folder -> whether it exists, and its entries
    rm_todo,     \* the folders the loop has not visited yet
    rm_folder,   \* the folder being imported
    rm_entries,  \* the files of that folder still to import
    rm_imported, \* the files imported so far, in order
    rm_result,   \* what run returned
    opc,         \* local pipeline: position
    tables_left, \* LocalConfig.tables: the tables from the current one on
    start_time,  \* LocalConfig.start_time, as days since 1970-01-01
    current_date,  \* LocalPipeline::run: current_date
    today,       \* LocalPipeline::run: today
    steps,       \* the steps run has performed so far, with their outcome
    npc,         \* subscribe_telepath: position
    js_stream,   \* the bus: the messages each stream holds, in sequence order
    sub_name,    \* subscribe_telepath: its telepath argument
    delivered,   \* the number of messages the consumer has yielded
    calls        \* the handler and ack calls made so far, in order

convVars == <<tx, rows, cpc>>
dirVars == <<files, meta, enable_watch, max_concurrent_clickhouse_tasks>>
svcVars == <<spc, processed_set, pending, processed_count, result, cur, slot_i, batch>>
poolVars == <<permits, queued, active>>
archVars == <<dirVars, log, store, svcVars, poolVars>>
statVars == <<stats_diff_hours, stats_diff_minutes, diff_count>>
runVars == <<mappings_left, exit_code, tables_before>>
syncVars == <<local_table, remote_table, start_ts, end_ts, diff_hours,
              diff_minutes, errors, synced_records, ypc, statVars, runVars>>
scanVars == <<scan_dir, scan_result, kpc>>
liveVars == <<lpc, msg_no, receiver, batches, live_permits, live_queued,
              live_active, live_store, message>>
blockVars == <<bpc, block_txs, tx_i, event_batch, flushes>>
trackerVars == <<tpc, log_lines, tracker_set, marked, log_before, log_tmp, cleanups>>
transportVars == <<rpc, local_dir_exists, attempt, rsync_calls, sleeps, last_error,
                   sync_result>>
parquetVars == <<ppc, pq_rows, pq_batch, pq_file, pq_read, pq_out>>
extractVars == <<epc, overflow_checks, ex_table, ex_day, ex_today, ex_files>>
remoteVars == <<mpc, import_mappings, table_event_mappings, rm_dirs, rm_todo, rm_folder,
                rm_entries, rm_imported, rm_result>>
localVars == <<opc, tables_left, start_time, current_date, today, steps>>
netVars == <<npc, js_stream, sub_name, delivered, calls>>
\* The variables of the syncer crate and of the misaka_network client.
syncerVars == <<transportVars, parquetVars, extractVars, remoteVars, localVars, netVars>>
vars == <<convVars, archVars, syncVars, scanVars, liveVars, blockVars, trackerVars,
          syncerVars>>
\* The variables of the squirrel components and of the reconciliation pass.
coreVars == <<convVars, archVars, syncVars, scanVars, liveVars, blockVars, trackerVars>>

\* What the actions of one component leave unchanged.
nonConvVars == <<archVars, syncVars, scanVars, liveVars, blockVars, trackerVars, syncerVars>>
nonArchVars == <<convVars, syncVars, scanVars, liveVars, blockVars, trackerVars, syncerVars>>
nonSyncVars == <<convVars, archVars, scanVars, liveVars, blockVars, trackerVars, syncerVars>>
nonScanVars == <<convVars, archVars, syncVars, liveVars, blockVars, trackerVars, syncerVars>>
nonLiveVars == <<convVars, archVars, syncVars, scanVars, blockVars, trackerVars, syncerVars>>
nonBlockVars == <<convVars, archVars, syncVars, scanVars, liveVars, trackerVars, syncerVars>>
nonTransportVars == <<coreVars, parquetVars, extractVars, remoteVars, localVars, netVars>>
nonParquetVars == <<coreVars, transportVars, extractVars, remoteVars, localVars, netVars>>
nonExtractVars == <<coreVars, transportVars, parquetVars, remoteVars, localVars, netVars>>
nonRemoteVars == <<coreVars, transportVars, parquetVars, extractVars, localVars, netVars>>
nonLocalVars == <<coreVars, transportVars, parquetVars, extractVars, remoteVars, netVars>>
nonNetVars == <<coreVars, transportVars, parquetVars, extractVars, remoteVars, localVars>>
nonTrackerVars == <<convVars, archVars, syncVars, scanVars, liveVars, blockVars, syncerVars>>

(***************************************************************************)
(* Bounds                                                                  *)
(***************************************************************************)
MaxInstrs == 4
\* Slot entries in all .meta files of the data directory together.
MaxSlots == 2
\* Largest max_concurrent_clickhouse_tasks configured.
MaxPermits == 2
MaxRows == 4
\* Entries of the scanned directory.
MaxEntries == 4
\* Bus messages the live subscriber receives.
MaxMsgs == 3
\* Transactions of one block.
MaxTxs == 3
\* Lines of processed_files.log.
MaxLines == 3
\* cleanup_log calls on one tracker.
MaxCleanups == 1

(***************************************************************************)
(* TransactionConverter::convert                                           *)
(***************************************************************************)
\* The eight output vectors, named as the parameters of convert.
Streams ==
    {"pumpfun_trade_event_rows", "pumpfun_create_event_rows",
     "pumpfun_migrate_event_rows", "pumpfun_amm_buy_event_rows",
     "pumpfun_amm_sell_event_rows", "pumpfun_amm_create_pool_event_rows",
     "pumpfun_amm_deposit_event_rows", "pumpfun_amm_withdraw_event_rows"}

\* The type tags is_event recognises.
EventTags ==
    {"PumpFunTradeEvent", "PumpFunCreateEvent", "PumpFunMigrateEvent",
     "PumpFunAmmBuyEvent", "PumpFunAmmSellEvent", "PumpFunAmmDepositEvent",
     "PumpFunAmmWithdrawEvent", "PumpFunAmmCreatePoolEvent"}

\* An instruction: its type tag, its parsed payload (the variant of
\* instruction::Parsed, or "None") and, for the AMM actions, whether the
\* payload's accounts field is Some.
Instr(type, parsed, accounts) ==
    [type |-> type, parsed |-> parsed, accounts |-> accounts]

\* Well-formed event instructions: the tag with its own payload variant.
EventInstrs ==
    {Instr("PumpFunTradeEvent", "PumpfunTradeEvent", FALSE),
     Instr("PumpFunCreateEvent", "PumpfunCreateEvent", FALSE),
     Instr("PumpFunMigrateEvent", "PumpfunMigrationEvent", FALSE),
     Instr("PumpFunAmmBuyEvent", "PumpfunAmmBuyEvent", FALSE),
     Instr("PumpFunAmmSellEvent", "PumpfunAmmSellEvent", FALSE),
     Instr("PumpFunAmmDepositEvent", "PumpfunAmmDepositEvent", FALSE),
     Instr("PumpFunAmmWithdrawEvent", "PumpfunAmmWithdrawEvent", FALSE),
     Instr("PumpFunAmmCreatePoolEvent", "PumpfunAmmCreatePoolEvent", FALSE)}

\* Action instructions with their payload (accounts present).
ActionInstrs ==
    {Instr("PumpFunBuy", "PumpfunBuy", TRUE),
     Instr("PumpFunCreate", "PumpfunCreate", TRUE),
     Instr("PumpFunMigrate", "PumpfunMigrate", TRUE),
     Instr("PumpFunAmmBuy", "PumpfunAmmBuy", TRUE),
     Instr("PumpFunAmmSell", "PumpfunAmmSell", TRUE),
     Instr("PumpFunAmmDeposit", "PumpfunAmmDeposit", TRUE),
     Instr("PumpFunAmmWithdraw", "PumpfunAmmWithdraw", TRUE),
     Instr("PumpFunAmmCreatePool", "PumpfunAmmCreatePool", TRUE)}

\* Instructions the upstream parser can also deliver: an instruction of
\* another program (no parsed payload), an AMM action whose accounts are
\* missing, an event tag without payload.
OtherInstrs ==
    {Instr("Other", "None", FALSE),
     Instr("PumpFunAmmBuy", "PumpfunAmmBuy", FALSE),
     Instr("PumpFunTradeEvent", "None", FALSE)}

Instructions == EventInstrs \cup ActionInstrs \cup OtherInstrs

is_event(instr) == instr.type \in EventTags

\* One of the three arms that read only the event payload (Trade, Create,
\* Migrate): the previous instruction must have a payload, whatever it is.
EventOnlyArm(instr, prev_instr, event_variant, stream) ==
    IF instr.parsed # "None" /\ prev_instr.parsed # "None"
       /\ instr.parsed = event_variant
    THEN stream ELSE "none"

\* AmmArm without the test of the action variant.
AmmArmAnyAction(instr, prev_instr, event_variant, action_variant, stream) ==
    IF instr.parsed # "None" /\ prev_instr.parsed # "None"
       /\ instr.parsed = event_variant /\ prev_instr.accounts
    THEN stream ELSE "none"

\* One of the five AMM arms: the event payload and the previous
\* instruction's payload must be the expected pair, and the action's
\* accounts must be present.
AmmArm(instr, prev_instr, event_variant, action_variant, stream) ==
    IF instr.parsed # "None" /\ prev_instr.parsed # "None"
       /\ instr.parsed = event_variant /\ prev_instr.parsed = action_variant
       /\ prev_instr.accounts
    THEN stream ELSE "none"

\* match instr.type: the output vector that receives a row, or "none".
EventArm(instr, prev_instr) ==
    CASE instr.type = "PumpFunTradeEvent" ->
           EventOnlyArm(instr, prev_instr, "PumpfunTradeEvent",
                        "pumpfun_trade_event_rows")
      [] instr.type = "PumpFunCreateEvent" ->
           EventOnlyArm(instr, prev_instr, "PumpfunCreateEvent",
                        "pumpfun_create_event_rows")
      [] instr.type = "PumpFunMigrateEvent" ->
           EventOnlyArm(instr, prev_instr, "PumpfunMigrationEvent",
                        "pumpfun_migrate_event_rows")
      [] instr.type = "PumpFunAmmBuyEvent" ->
           AmmArm(instr, prev_instr, "PumpfunAmmBuyEvent", "PumpfunAmmBuy",
                  "pumpfun_amm_buy_event_rows")
      [] instr.type = "PumpFunAmmSellEvent" ->
           AmmArm(instr, prev_instr, "PumpfunAmmSellEvent", "PumpfunAmmSell",
                  "pumpfun_amm_sell_event_rows")
      [] instr.type = "PumpFunAmmDepositEvent" ->
           AmmArm(instr, prev_instr, "PumpfunAmmDepositEvent",
                  "PumpfunAmmDeposit", "pumpfun_amm_deposit_event_rows")
      [] instr.type = "PumpFunAmmWithdrawEvent" ->
           AmmArm(instr, prev_instr, "PumpfunAmmWithdrawEvent",
                  "PumpfunAmmWithdraw", "pumpfun_amm_withdraw_event_rows")
      [] instr.type = "PumpFunAmmCreatePoolEvent" ->
           AmmArm(instr, prev_instr, "PumpfunAmmCreatePoolEvent",
                  "PumpfunAmmCreatePool", "pumpfun_amm_create_pool_event_rows")
      [] OTHER -> "none"

\* StackPop that hands back the current instruction when the stack is empty.
StackPopSelf(stack, pos) == IF stack = <<>> THEN pos ELSE stack[Len(stack)]

\* stack.pop(): the popped reference (a position of tx), 0 for None.
StackPop(stack, pos) == IF stack = <<>> THEN 0 ELSE stack[Len(stack)]

\* stack.push(instr)
StackPush(stack, pos) == Append(stack, pos)

\* A row that takes its instruction_index from the popped action.
EventRowActionIndex(index, action_index) ==
    [instruction_index |-> action_index, action_index |-> action_index]

\* A row that carries the same index whatever the instruction.
EventRowSameIndex(index, action_index) ==
    [instruction_index |-> 0, action_index |-> action_index]

\* A pushed row. instruction_index is the loop counter `index`;
\* action_index records which instruction was popped for it (the one the
\* action-side fields, accounts and is_main_pool, are read from).
EventRow(index, action_index) ==
    [instruction_index |-> index, action_index |-> action_index]

\* The body of `for instr in &tx.instructions`, from position pos (1-based;
\* the code's index is pos - 1) with the given stack and output vectors.
RECURSIVE ConvertLoop(_, _, _, _)
ConvertLoop(t, pos, stack, out) ==
    IF pos > Len(t) THEN out
    ELSE
      LET instr == t[pos]
          popped == StackPop(stack, pos)
      IN  IF is_event(instr)
          THEN IF popped # 0
               THEN LET s == EventArm(instr, t[popped])
                        rest == SubSeq(stack, 1, Len(stack) - 1)
                    IN  ConvertLoop(t, pos + 1, rest,
                          IF s = "none" THEN out
                          ELSE [out EXCEPT
                                  ![s] = Append(@, EventRow(pos - 1, popped - 1))])
               ELSE ConvertLoop(t, pos + 1, stack, out)
          ELSE ConvertLoop(t, pos + 1, StackPush(stack, pos), out)

(***************************************************************************)
(* Strings and Option values                                               *)
(*                                                                         *)
(* A string is a sequence of symbols. A symbol is one character (a digit,  *)
(* a letter, "_", ",", "#", "+", " ") or one of the literals the code      *)
(* compares with as a whole: ".meta", ".bin", ".txt", "completed",         *)
(* "failed", and a timestamp text "t1", "t2", ...                          *)
(***************************************************************************)
None == [some |-> FALSE, value |-> <<>>]
Some(v) == [some |-> TRUE, value |-> v]
unwrap_or(opt, default) == IF opt.some THEN opt.value ELSE default

Digits == <<"0", "1", "2", "3", "4", "5", "6", "7", "8", "9">>
IsDigit(c) == \E i \in 1..Len(Digits) : Digits[i] = c
DigitValue(c) == (CHOOSE i \in 1..Len(Digits) : Digits[i] = c) - 1

\* str::ends_with
ends_with(s, suffix) == Len(s) >= 1 /\ s[Len(s)] = suffix

\* str::starts_with
starts_with(s, c) == Len(s) >= 1 /\ s[1] = c

\* str::trim_end_matches: the suffix is removed as often as it is there.
RECURSIVE trim_end_matches(_, _)
trim_end_matches(s, suffix) ==
    IF ends_with(s, suffix)
    THEN trim_end_matches(SubSeq(s, 1, Len(s) - 1), suffix)
    ELSE s

\* str::trim
RECURSIVE trim(_)
trim(s) ==
    IF starts_with(s, " ") THEN trim(Tail(s))
    ELSE IF ends_with(s, " ") THEN trim(SubSeq(s, 1, Len(s) - 1))
    ELSE s

\* str::split(sep).collect(): the parts between the separators, at least one.
RECURSIVE split(_, _)
split(s, sep) ==
    IF \E i \in 1..Len(s) : s[i] = sep
    THEN LET i == CHOOSE k \in 1..Len(s) : s[k] = sep /\ \A j \in 1..(k - 1) : s[j] # sep
         IN  <<SubSeq(s, 1, i - 1)>> \o split(SubSeq(s, i + 1, Len(s)), sep)
    ELSE <<s>>

\* The value of a non-empty run of digits.
RECURSIVE DigitsValue(_)
DigitsValue(s) ==
    IF Len(s) = 1 THEN DigitValue(s[1])
    ELSE DigitsValue(SubSeq(s, 1, Len(s) - 1)) * 10 + DigitValue(s[Len(s)])

\* str::parse::<u64>: digits, optionally after one '+'.
parse_u64(s) ==
    LET body == IF starts_with(s, "+") THEN Tail(s) ELSE s
    IN  IF body # <<>> /\ \A i \in 1..Len(body) : IsDigit(body[i])
        THEN Some(DigitsValue(body))
        ELSE None

\* Every order in which a HashMap or a directory listing can yield the
\* elements of S.
Orders(S) ==
    {s \in [1..Cardinality(S) -> S] : \A i, j \in 1..Cardinality(S) : s[i] = s[j] => i = j}

(***************************************************************************)
(* FileScanner                                                             *)
(***************************************************************************)
\* A directory entry: its file name and whether path.is_file().
DirEntry(name, is_file) == [name |-> name, is_file |-> is_file]

\* extract_prefix_from_filename
extract_prefix_from_filename(filename) ==
    IF ends_with(filename, ".meta")
    THEN LET prefix == trim_end_matches(filename, ".meta")
         IN  IF prefix = <<>> THEN None ELSE Some(prefix)
    ELSE IF ends_with(filename, ".bin")
    THEN LET prefix == trim_end_matches(filename, ".bin")
         IN  IF prefix = <<>> THEN None ELSE Some(prefix)
    ELSE None

\* extract_start_slot: prefix.split('_').next()?.parse::<u64>().ok()
extract_start_slot(prefix) == parse_u64(split(prefix, "_")[1])

\* The paths meta_files / bin_files can hold for a prefix after the loop
\* over the directory: insert replaces an earlier path of the same prefix,
\* so any file mapped to the prefix can be the one that stays.
PathsOf(dir, prefix, suffix) ==
    {e.name : e \in {x \in dir : /\ x.is_file
                                 /\ ends_with(x.name, suffix)
                                 /\ extract_prefix_from_filename(x.name) = Some(prefix)}}

\* The prefixes that are a key of both maps.
PairedPrefixes(dir) ==
    {extract_prefix_from_filename(e.name).value :
        e \in {x \in dir : /\ x.is_file
                           /\ extract_prefix_from_filename(x.name).some
                           /\ PathsOf(dir, extract_prefix_from_filename(x.name).value, ".meta") # {}
                           /\ PathsOf(dir, extract_prefix_from_filename(x.name).value, ".bin") # {}}}

FilePair(prefix, meta_path, bin_path) ==
    [prefix |-> prefix, meta_path |-> meta_path, bin_path |-> bin_path]

\* The sets file_pairs can hold before the sort: one pair per prefix.
FilePairSets(dir) ==
    {{FilePair(p, c[p][1], c[p][2]) : p \in PairedPrefixes(dir)} :
        c \in {f \in [PairedPrefixes(dir) -> UNION {PathsOf(dir, p, ".meta") \X PathsOf(dir, p, ".bin")
                                                     : p \in PairedPrefixes(dir)}] :
                 \A p \in PairedPrefixes(dir) :
                     f[p] \in PathsOf(dir, p, ".meta") \X PathsOf(dir, p, ".bin")}}

\* The comparator that orders by start slot ascending.
SortedAscending(s) ==
    \A i, j \in 1..Len(s) :
        i < j => unwrap_or(extract_start_slot(s[i].prefix), 0)
                    <= unwrap_or(extract_start_slot(s[j].prefix), 0)

\* sort_by(|a, b| b_start.cmp(&a_start)) with unwrap_or(0): no pair comes
\* before one with a larger start slot; the stable sort leaves pairs with
\* equal start slots in the order the HashMap yielded them.
SortedByStartSlotDesc(s) ==
    \A i, j \in 1..Len(s) :
        i < j => unwrap_or(extract_start_slot(s[i].prefix), 0)
                    >= unwrap_or(extract_start_slot(s[j].prefix), 0)

\* scan_available_files: every Vec<FilePair> it can return for a directory.
scan_available_files(dir) ==
    UNION {{s \in Orders(pairs) : SortedByStartSlotDesc(s)} : pairs \in FilePairSets(dir)}

\* The file names a scanned directory is populated from: "1_2", "3_4" and
\* "1_9" (a second unit starting at slot 1), "a_2" (no numeric start slot),
\* each as .meta and .bin; a .txt file, the names ".meta" and ".bin"
\* alone, and a name that ends in ".meta.meta".
ScanStems == {<<"1", "_", "2">>, <<"3", "_", "4">>, <<"1", "_", "9">>, <<"a", "_", "2">>}
ScanNames ==
    {stem \o <<suffix>> : stem \in ScanStems, suffix \in {".meta", ".bin"}}
    \cup {<<"1", "_", "2", ".txt">>, <<".meta">>, <<".bin">>,
          <<"1", "_", "2", ".meta", ".meta">>}

\* Directories of at most n entries, no name twice; an entry is a regular
\* file or not (a subdirectory).
Directories(n) ==
    UNION {{{DirEntry(name, name \notin subdirs) : name \in names} : subdirs \in SUBSET names} :
              names \in {N \in SUBSET ScanNames : Cardinality(N) <= n}}

ScanIdle ==
    /\ scan_dir = {}
    /\ scan_result = <<>>
    /\ kpc = "off"

(***************************************************************************)
(* Archive block parser: data directory, tracker                           *)
(***************************************************************************)
\* The two units of the data directory: "1_2" and "3_4".
Prefix1 == <<"1", "_", "2">>
Prefix3 == <<"3", "_", "4">>
Prefixes == {Prefix1, Prefix3}

\* No pair is in work (the empty prefix, which the scanner never yields).
NoPrefix == <<>>

\* The clock reading mark_as_processed writes, to_rfc3339.
Now == "t1"

\* The two tables the modelled blocks produce rows for.
TradeTable == "pumpfun_trade_event_rows"
AmmBuyTable == "pumpfun_amm_buy_event_rows"

\* FileProcessor.batch_size
batch_size == 1000

\* A SlotMeta entry together with what its bytes in the .bin file decode to:
\* block tells whether the offset is Some and seek, read, zstd and the
\* Block deserialisation all succeed (otherwise the loop continues with the
\* next entry); trade and amm_buy are the numbers of rows convert appends
\* for the block's transactions.
SlotSkipped == [block |-> FALSE, trade |-> 0, amm_buy |-> 0]
SlotSmallBlock == [block |-> TRUE, trade |-> 1, amm_buy |-> 0]
SlotBigBlock == [block |-> TRUE, trade |-> 1, amm_buy |-> batch_size]

SlotEntries == {SlotSkipped, SlotSmallBlock, SlotBigBlock}

\* The line mark_as_processed writes: "{},{},completed".
CompletionLine(timestamp, prefix) == <<timestamp, ",">> \o prefix \o <<",", "completed">>

\* load_processed_list accepting lines of exactly three fields only.
load_processed_list_three_fields(lines) ==
    {split(trim(lines[i]), ",")[2] :
        i \in {j \in 1..Len(lines) :
                 LET line == trim(lines[j])
                     parts == split(line, ",")
                 IN  /\ ~(line = <<>> \/ starts_with(line, "#"))
                     /\ Len(parts) = 3
                     /\ parts[3] = <<"completed">>}}

\* load_processed_list: the set built from the lines of the log. A line is
\* trimmed; blank lines and lines starting with '#' are skipped; the others
\* are split at ',' and parts[1] is inserted when parts[2] is "completed".
load_processed_list(lines) ==
    {split(trim(lines[i]), ",")[2] :
        i \in {j \in 1..Len(lines) :
                 LET line == trim(lines[j])
                     parts == split(line, ",")
                 IN  /\ ~(line = <<>> \/ starts_with(line, "#"))
                     /\ Len(parts) >= 3
                     /\ parts[3] = <<"completed">>}}

\* is_processed
is_processed(set, prefix) == prefix \in set

\* The filter of process_pending_files that keeps everything.
pending_pairs_unfiltered(file_pairs, set) == file_pairs

\* process_pending_files: file_pairs filtered by !is_processed.
pending_pairs(file_pairs, set) ==
    SelectSeq(file_pairs, LAMBDA pair : ~is_processed(set, pair.prefix))

(***************************************************************************)
(* FileProcessor batches and the flush pool                                *)
(***************************************************************************)
EmptyBatch == [s \in Streams |-> <<>>]

\* A group of n rows of one slot entry of one archive unit.
RowGroup(prefix, k, n) == [prefix |-> prefix, slot |-> k, n |-> n]

RECURSIVE BatchLen(_)
BatchLen(groups) ==
    IF groups = <<>> THEN 0 ELSE Head(groups).n + BatchLen(Tail(groups))

\* handle_block: convert appends the block's rows to the batch vectors.
handle_block(b, prefix, k, e) ==
    [s \in Streams |->
        IF s = TradeTable /\ e.trade > 0
        THEN Append(b[s], RowGroup(prefix, k, e.trade))
        ELSE IF s = AmmBuyTable /\ e.amm_buy > 0
        THEN Append(b[s], RowGroup(prefix, k, e.amm_buy))
        ELSE b[s]]

\* check_and_flush_batches: any vector at or above batch_size.
should_flush(b) == \E s \in Streams : BatchLen(b[s]) >= batch_size

\* submit_clickhouse_inserts spawning a task for every vector, empty or not.
InsertTasksEveryStream(b) == {[table |-> s, rows |-> b[s]] : s \in Streams}

\* submit_clickhouse_inserts: one insert task per non-empty vector.
InsertTasks(b) == {[table |-> s, rows |-> b[s]] : s \in {t \in Streams : b[t] # <<>>}}

\* AsyncPool::new passing one permit too many.
FileProcessorNewExtraPermit(n) == n + 1

\* FileProcessor::new: AsyncPool::new(max_concurrent_clickhouse_tasks).
FileProcessorNew(n) == n

\* AsyncPool::submit that drops the tasks when no permit is free.
AsyncPoolSubmitOrDrop(q, a, n, tasks) ==
    IF Cardinality(a) >= n THEN q ELSE q \cup tasks

\* AsyncPool::submit: the tasks are spawned at once and wait for a permit.
AsyncPoolSubmit(q, a, n, tasks) == q \cup tasks

\* wait_all_tasks that returns while tasks still wait for a permit.
wait_all_tasks_active_only(q, a) == a = {}

\* AsyncPool::wait_all_tasks may return: no task is waiting or running.
wait_all_tasks(q, a) == q = {} /\ a = {}

\* The rows an insert task writes to the store.
TaskRows(t) ==
    {[table |-> t.table, prefix |-> t.rows[i].prefix, slot |-> t.rows[i].slot] :
        i \in 1..Len(t.rows)}

\* The rows processing unit p must insert: those of its decodable blocks.
UnitRows(p) ==
    LET slots == meta[p].slots
    IN  {[table |-> TradeTable, prefix |-> p, slot |-> k] :
            k \in {j \in 1..Len(slots) : slots[j].block /\ slots[j].trade > 0}}
        \cup
        {[table |-> AmmBuyTable, prefix |-> p, slot |-> k] :
            k \in {j \in 1..Len(slots) : slots[j].block /\ slots[j].amm_buy > 0}}

\* No live subscriber, no handle_block call and no stand-alone tracker.
LiveIdle ==
    /\ lpc = "off"
    /\ msg_no = 0
    /\ receiver = <<>>
    /\ batches = EmptyBatch
    /\ live_permits = 0
    /\ live_queued = {}
    /\ live_active = {}
    /\ live_store = {}
    /\ message = <<>>

BlockIdle ==
    /\ bpc = "off"
    /\ block_txs = <<>>
    /\ tx_i = 0
    /\ event_batch = EmptyBatch
    /\ flushes = <<>>

TrackerIdle ==
    /\ tpc = "off"
    /\ log_lines = <<>>
    /\ tracker_set = {}
    /\ marked = {}
    /\ log_before = <<>>
    /\ log_tmp = <<>>
    /\ cleanups = 0

TransportIdle ==
    /\ rpc = "off"
    /\ local_dir_exists = FALSE
    /\ attempt = 0
    /\ rsync_calls = <<>>
    /\ sleeps = <<>>
    /\ last_error = <<>>
    /\ sync_result = <<>>

\* No syncer pipeline component is running.
ParquetIdle ==
    /\ ppc = "off"
    /\ pq_rows = <<>>
    /\ pq_batch = <<>>
    /\ pq_file = <<>>
    /\ pq_read = <<>>
    /\ pq_out = <<>>

ExtractIdle ==
    /\ epc = "off"
    /\ overflow_checks = FALSE
    /\ ex_table = {}
    /\ ex_day = 0
    /\ ex_today = 0
    /\ ex_files = {}

RemoteIdle ==
    /\ mpc = "off"
    /\ import_mappings = {}
    /\ table_event_mappings = <<>>
    /\ rm_dirs = <<>>
    /\ rm_todo = {}
    /\ rm_folder = ""
    /\ rm_entries = <<>>
    /\ rm_imported = <<>>
    /\ rm_result = ""

\* LocalPipeline::run is not running.
LocalIdle ==
    /\ opc = "off"
    /\ tables_left = 0
    /\ start_time = 0
    /\ current_date = 0
    /\ today = 0
    /\ steps = <<>>

\* No subscriber on the signal bus.
NetIdle ==
    /\ npc = "off"
    /\ js_stream = <<>>
    /\ sub_name = ""
    /\ delivered = 0
    /\ calls = <<>>

SyncerIdle ==
    TransportIdle /\ ParquetIdle /\ ExtractIdle /\ RemoteIdle /\ LocalIdle /\ NetIdle

OthersIdle == LiveIdle /\ BlockIdle /\ TrackerIdle /\ SyncerIdle

(***************************************************************************)
(* SyncChecker: tables and queries                                         *)
(***************************************************************************)
HourSecs == 3600
MinuteSecs == 60

\* Row k has the key (signature, instruction_index) k and this timestamp:
\* rows 1 and 2 share the first minute, row 3 is in the second minute, row 4
\* opens the next hour, and so on.
RowTimestamp(k) == ((k - 1) \div 3) * HourSecs + ((k - 1) % 3) * 30 + 10

RowUniverse == {[key |-> k, timestamp |-> RowTimestamp(k)] : k \in 1..MaxRows}

\* The windows calculate_time_range can produce over these rows: the
\* bounds fall on a bucket start or in the middle of a minute.
WindowStarts == {0, 30}
WindowEnds == {HourSecs, HourSecs + 30, 2 * HourSecs}

toStartOfHour(ts) == ts - (ts % HourSecs)
toStartOfMinute(ts) == ts - (ts % MinuteSecs)

\* WHERE timestamp >= a AND timestamp < b
InRange(table, a, b) == {r \in table : r.timestamp >= a /\ r.timestamp < b}

\* uniqExact(tuple(signature, instruction_index)) of one hour / minute
\* bucket among the rows selected by the WHERE clause.
HourCount(table, a, b, hour) ==
    Cardinality({r.key : r \in {x \in InRange(table, a, b) : toStartOfHour(x.timestamp) = hour}})

MinuteCount(table, a, b, minute) ==
    Cardinality({r.key : r \in {x \in InRange(table, a, b) : toStartOfMinute(x.timestamp) = minute}})

\* The buckets a GROUP BY returns.
Hours(table, a, b) == {toStartOfHour(r.timestamp) : r \in InRange(table, a, b)}
Minutes(table, a, b) == {toStartOfMinute(r.timestamp) : r \in InRange(table, a, b)}

RECURSIVE SortAsc(_)
SortAsc(S) ==
    IF S = {} THEN <<>>
    ELSE LET lo == CHOOSE x \in S : \A y \in S : x <= y
         IN  <<lo>> \o SortAsc(S \ {lo})

\* compare_hourly that reports every hour either side returned.
compare_hourly_every_hour(local, remote, a, b) ==
    SortAsc(Hours(local, a, b) \cup Hours(remote, a, b))

\* compare_hourly: the local hours whose count differs from the remote
\* count (0 when the remote has no such hour), then the hours only the
\* remote returned; sorted.
compare_hourly(local, remote, a, b) ==
    SortAsc({h \in Hours(local, a, b) : HourCount(local, a, b, h) # HourCount(remote, a, b, h)}
            \cup (Hours(remote, a, b) \ Hours(local, a, b)))

\* compare_and_sync_minutely, the minutes handed to sync_minute_data: the
\* local minutes whose count differs, in ORDER BY order.
local_diff_minutes(local, remote, a, b) ==
    SortAsc({m \in Minutes(local, a, b) : MinuteCount(local, a, b, m) # MinuteCount(remote, a, b, m)})

\* ... followed by what is left in remote_map.
remote_only_minutes(local, remote, a, b) == Minutes(remote, a, b) \ Minutes(local, a, b)

\* sync_minute_data that never issues the INSERT.
sync_minute_data_no_insert(local, remote, minute_ts) == remote

\* sync_minute_data: when the local minute holds rows, the remote inserts
\* the local rows of [minute_ts, minute_ts + 60).
sync_minute_data(local, remote, minute_ts) ==
    IF Cardinality(InRange(local, minute_ts, minute_ts + MinuteSecs)) > 0
    THEN remote \cup InRange(local, minute_ts, minute_ts + MinuteSecs)
    ELSE remote

SyncIdle ==
    /\ local_table = {}
    /\ remote_table = {}
    /\ start_ts = 0
    /\ end_ts = 0
    /\ diff_hours = <<>>
    /\ diff_minutes = <<>>
    /\ errors = <<>>
    /\ synced_records = 0
    /\ ypc = "off"
    /\ stats_diff_hours = 0
    /\ stats_diff_minutes = 0
    /\ diff_count = 0
    /\ mappings_left = 0
    /\ exit_code = -1
    /\ tables_before = [local |-> local_table, remote |-> remote_table]

(***************************************************************************)
(* BlockParserService                                                      *)
(***************************************************************************)
\* The state that dies with the process.
ProcessGone(state) ==
    /\ spc' = state
    /\ processed_set' = {}
    /\ pending' = <<>>
    /\ processed_count' = 0
    /\ cur' = NoPrefix
    /\ slot_i' = 0
    /\ batch' = EmptyBatch
    /\ permits' = 0
    /\ queued' = {}
    /\ active' = {}
    /\ result' = -1

ArchiveIdle ==
    /\ files = {}
    /\ meta = [p \in Prefixes |-> [ok |-> TRUE, slots |-> <<>>]]
    /\ enable_watch = FALSE
    /\ max_concurrent_clickhouse_tasks = 1
    /\ log = <<>>
    /\ store = {}
    /\ spc = "off"
    /\ processed_set = {}
    /\ pending = <<>>
    /\ processed_count = 0
    /\ result = -1
    /\ cur = NoPrefix
    /\ slot_i = 0
    /\ batch = EmptyBatch
    /\ permits = 0
    /\ queued = {}
    /\ active = {}

\* The data directory and the configuration the service is started with.
\* "1_2" is a complete pair; "3_4" is a complete pair or lacks its .meta
\* file. The .meta files hold at most MaxSlots entries together.
InitArchive ==
    /\ files \in {{DirEntry(Prefix1 \o <<".meta">>, TRUE), DirEntry(Prefix1 \o <<".bin">>, TRUE),
                   DirEntry(Prefix3 \o <<".meta">>, TRUE), DirEntry(Prefix3 \o <<".bin">>, TRUE)},
                  {DirEntry(Prefix1 \o <<".meta">>, TRUE), DirEntry(Prefix1 \o <<".bin">>, TRUE),
                   DirEntry(Prefix3 \o <<".bin">>, TRUE)}}
    /\ \E a \in 0..MaxSlots : \E b \in 0..(MaxSlots - a) :
       \E sa \in [1..a -> SlotEntries] : \E sb \in [1..b -> SlotEntries] :
       \E oka \in BOOLEAN : \E okb \in BOOLEAN :
          /\ (~oka => a = 0) /\ (~okb => b = 0)
          /\ (DirEntry(Prefix3 \o <<".meta">>, TRUE) \notin files => (okb /\ b = 0))
          /\ meta = [p \in Prefixes |->
                        IF p = Prefix1 THEN [ok |-> oka, slots |-> sa]
                        ELSE [ok |-> okb, slots |-> sb]]
    /\ enable_watch \in BOOLEAN
    /\ max_concurrent_clickhouse_tasks \in 1..MaxPermits
    /\ log = <<>>
    /\ store = {}
    /\ spc = "down"
    /\ processed_set = {}
    /\ pending = <<>>
    /\ processed_count = 0
    /\ result = -1
    /\ cur = NoPrefix
    /\ slot_i = 0
    /\ batch = EmptyBatch
    /\ permits = 0
    /\ queued = {}
    /\ active = {}

\* BlockParserService::new: the tracker loads the log, the processor
\* creates its pool.
ServiceNew ==
    /\ spc \in {"down", "stopped", "exited"}
    /\ processed_set' = load_processed_list(log)
    /\ permits' = FileProcessorNew(max_concurrent_clickhouse_tasks)
    /\ queued' = {}
    /\ active' = {}
    /\ batch' = EmptyBatch
    /\ pending' = <<>>
    /\ processed_count' = 0
    /\ cur' = NoPrefix
    /\ slot_i' = 0
    /\ spc' = "scan"
    /\ result' = -1
    /\ UNCHANGED <<dirVars, log, store, nonArchVars>>

\* process_pending_files up to the loop over pending_pairs.
ScanPending ==
    /\ spc = "scan"
    /\ \E file_pairs \in scan_available_files(files) :
       LET pend == pending_pairs(file_pairs, processed_set)
       IN  IF file_pairs = <<>> \/ pend = <<>>
           THEN /\ result' = 0
                /\ spc' = "returned"
                /\ pending' = <<>>
                /\ processed_count' = 0
           ELSE /\ pending' = pend
                /\ processed_count' = 0
                /\ spc' = "next"
                /\ UNCHANGED result
    /\ UNCHANGED <<dirVars, log, store, processed_set, cur, slot_i, batch,
                   poolVars, nonArchVars>>

\* The loop head: the next pair is opened (load_slot_meta, File::open), or
\* the loop is over and processed_count is returned.
OpenFilePair ==
    /\ spc = "next"
    /\ pending # <<>>
    /\ meta[Head(pending).prefix].ok
    /\ cur' = Head(pending).prefix
    /\ slot_i' = 1
    /\ spc' = "slots"
    /\ UNCHANGED <<dirVars, log, store, processed_set, pending, processed_count,
                   result, batch, poolVars, nonArchVars>>

\* process_file_pair with a record written for the pair it fails on.
OpenFilePairFailsRecorded ==
    /\ spc = "next"
    /\ pending # <<>>
    /\ ~meta[Head(pending).prefix].ok
    /\ cur' = Head(pending).prefix
    /\ spc' = "failed"
    /\ log' = Append(log, CompletionLine(Now, Head(pending).prefix))
    /\ processed_set' = processed_set \cup {Head(pending).prefix}
    /\ UNCHANGED <<dirVars, store, pending, processed_count,
                   result, slot_i, batch, poolVars, nonArchVars>>

\* load_slot_meta or File::open fails: the `?` makes process_file_pair
\* return Err before any slot is read.
OpenFilePairFails ==
    /\ spc = "next"
    /\ pending # <<>>
    /\ ~meta[Head(pending).prefix].ok
    /\ cur' = Head(pending).prefix
    /\ spc' = "failed"
    /\ UNCHANGED <<dirVars, log, store, processed_set, pending, processed_count,
                   result, slot_i, batch, poolVars, nonArchVars>>

\* The Err arm of process_pending_files: panic!.
PanicOnFailedPair ==
    /\ spc = "failed"
    /\ ProcessGone("down")
    /\ UNCHANGED <<dirVars, log, store, nonArchVars>>

ReturnCount ==
    /\ spc = "next"
    /\ pending = <<>>
    /\ result' = processed_count
    /\ spc' = "returned"
    /\ UNCHANGED <<dirVars, log, store, processed_set, pending, processed_count,
                   cur, slot_i, batch, poolVars, nonArchVars>>

\* The slot loop leaving the unit at the first entry it cannot use.
ProcessSlotAbortsOnSkip ==
    /\ spc = "slots"
    /\ slot_i <= Len(meta[cur].slots)
    /\ LET e == meta[cur].slots[slot_i]
       IN  IF ~e.block
           THEN /\ slot_i' = Len(meta[cur].slots) + 1
                /\ UNCHANGED <<batch, queued>>
           ELSE /\ slot_i' = slot_i + 1
                /\ LET b == handle_block(batch, cur, slot_i, e)
                   IN  IF should_flush(b)
                       THEN /\ batch' = EmptyBatch
                            /\ queued' = AsyncPoolSubmit(queued, active, permits,
                                                         InsertTasks(b))
                       ELSE /\ batch' = b
                            /\ UNCHANGED queued
    /\ UNCHANGED <<dirVars, log, store, spc, processed_set, pending,
                   processed_count, result, cur, permits, active, nonArchVars>>

\* One iteration of `for slot in &slot_meta`.
ProcessSlot ==
    /\ spc = "slots"
    /\ slot_i <= Len(meta[cur].slots)
    /\ LET e == meta[cur].slots[slot_i]
       IN  IF ~e.block
           THEN UNCHANGED <<batch, queued>>
           ELSE LET b == handle_block(batch, cur, slot_i, e)
                IN  IF should_flush(b)
                    THEN /\ batch' = EmptyBatch
                         /\ queued' = AsyncPoolSubmit(queued, active, permits,
                                                      InsertTasks(b))
                    ELSE /\ batch' = b
                         /\ UNCHANGED queued
    /\ slot_i' = slot_i + 1
    /\ UNCHANGED <<dirVars, log, store, spc, processed_set, pending,
                   processed_count, result, cur, permits, active, nonArchVars>>

\* After the loop: flush_all_batches.
FlushAllBatches ==
    /\ spc = "slots"
    /\ slot_i > Len(meta[cur].slots)
    /\ batch' = EmptyBatch
    /\ queued' = AsyncPoolSubmit(queued, active, permits, InsertTasks(batch))
    /\ spc' = "wait"
    /\ UNCHANGED <<dirVars, log, store, processed_set, pending, processed_count,
                   result, cur, slot_i, permits, active, nonArchVars>>

\* process_file_pair returning without the wait for the pool.
ProcessFilePairReturnsNoWait ==
    /\ spc = "wait"
    /\ spc' = "mark"
    /\ UNCHANGED <<dirVars, log, store, processed_set, pending, processed_count,
                   result, cur, slot_i, batch, poolVars, nonArchVars>>

\* self.async_pool.wait_all_tasks().await; Ok(())
ProcessFilePairReturns ==
    /\ spc = "wait"
    /\ wait_all_tasks(queued, active)
    /\ spc' = "mark"
    /\ UNCHANGED <<dirVars, log, store, processed_set, pending, processed_count,
                   result, cur, slot_i, batch, poolVars, nonArchVars>>

\* The Ok arm: tracker.mark_as_processed(prefix), processed_count += 1.
MarkAsProcessed ==
    /\ spc = "mark"
    /\ log' = Append(log, CompletionLine(Now, cur))
    /\ processed_set' = processed_set \cup {cur}
    /\ processed_count' = processed_count + 1
    /\ pending' = Tail(pending)
    /\ spc' = "next"
    /\ UNCHANGED <<dirVars, store, result, cur, slot_i, batch, poolVars, nonArchVars>>

\* mark_as_processed fails (the log cannot be opened or written): the `?`
\* returns the error to run, which panics.
MarkAsProcessedFails ==
    /\ spc = "mark"
    /\ ProcessGone("down")
    /\ UNCHANGED <<dirVars, log, store, nonArchVars>>

\* run: after a scan the service sleeps and scans again, or exits when
\* watch mode is off.
SleepThenScan ==
    /\ spc = "returned"
    /\ enable_watch
    /\ spc' = "scan"
    /\ UNCHANGED <<dirVars, log, store, processed_set, pending, processed_count,
                   result, cur, slot_i, batch, poolVars, nonArchVars>>

ExitAfterScan ==
    /\ spc = "returned"
    /\ ~enable_watch
    /\ ProcessGone("stopped")
    /\ UNCHANGED <<dirVars, log, store, nonArchVars>>

\* A spawned insert task acquires a permit.
TaskStart(t) ==
    /\ t \in queued
    /\ Cardinality(active) < permits
    /\ queued' = queued \ {t}
    /\ active' = active \cup {t}
    /\ UNCHANGED <<dirVars, log, store, svcVars, permits, nonArchVars>>

\* The insert task writes its rows, ends the insert and releases the permit.
TaskComplete(t) ==
    /\ t \in active
    /\ store' = store \cup TaskRows(t)
    /\ active' = active \ {t}
    /\ UNCHANGED <<dirVars, log, svcVars, permits, queued, nonArchVars>>

\* insert / write / end fails: std::process::exit(1).
TaskFails(t) ==
    /\ t \in active
    /\ ProcessGone("exited")
    /\ UNCHANGED <<dirVars, log, store, nonArchVars>>

\* The process is killed at any point.
Crash ==
    /\ spc \notin {"down", "stopped", "exited", "off"}
    /\ ProcessGone("down")
    /\ UNCHANGED <<dirVars, log, store, nonArchVars>>

ServiceStep ==
    \/ ScanPending
    \/ OpenFilePair
    \/ ReturnCount
    \/ ProcessSlot
    \/ FlushAllBatches
    \/ ProcessFilePairReturns
    \/ MarkAsProcessed
    \/ SleepThenScan
    \/ ExitAfterScan

PoolStep ==
    \/ \E t \in queued : TaskStart(t)
    \/ \E t \in active : TaskComplete(t)

Next ==
    \/ ServiceNew
    \/ ServiceStep
    \/ PoolStep
    \/ OpenFilePairFails
    \/ PanicOnFailedPair
    \/ MarkAsProcessedFails
    \/ \E t \in active : TaskFails(t)
    \/ Crash

Init ==
    /\ tx = <<>> /\ rows = [s \in Streams |-> <<>>] /\ cpc = "off"
    /\ SyncIdle
    /\ ScanIdle
    /\ OthersIdle
    /\ InitArchive

Spec == Init /\ [][Next]_vars

\* The service and its pool when no task fails and the process is not
\* killed; the runtime schedules every spawned task that can take a step.
NextFair ==
    \/ ServiceNew
    \/ ServiceStep
    \/ PoolStep

\* A directory of two complete, readable pairs.
InitFair ==
    /\ Init
    /\ \A p \in Prefixes : meta[p].ok /\ DirEntry(p \o <<".meta">>, TRUE) \in files

FairSpec ==
    /\ InitFair
    /\ [][NextFair]_vars
    /\ WF_vars(\E t \in queued : TaskStart(t))
    /\ WF_vars(\E t \in active : TaskComplete(t))

EmptyRows == [s \in Streams |-> <<>>]

InitConvert ==
    /\ rows = EmptyRows
    /\ cpc = "start"
    /\ ArchiveIdle
    /\ SyncIdle
    /\ ScanIdle
    /\ OthersIdle
    /\ \E n \in 0..MaxInstrs : tx \in [1..n -> Instructions]

\* TransactionConverter::convert(tx, rows...)
Convert ==
    /\ cpc = "start"
    /\ rows' = ConvertLoop(tx, 1, <<>>, rows)
    /\ cpc' = "done"
    /\ UNCHANGED <<tx, nonConvVars>>

NextConvert == Convert

SpecConvert == InitConvert /\ [][NextConvert]_vars

(***************************************************************************)
(* SyncChecker::check_and_sync for one table mapping                       *)
(***************************************************************************)
InitSync ==
    /\ local_table \in SUBSET RowUniverse
    /\ remote_table \in SUBSET RowUniverse
    /\ start_ts \in WindowStarts
    /\ end_ts \in WindowEnds
    /\ diff_hours = <<>>
    /\ diff_minutes = <<>>
    /\ errors = <<>>
    /\ synced_records = 0
    /\ ypc = "start"
    /\ stats_diff_hours = 0
    /\ stats_diff_minutes = 0
    /\ diff_count = 0
    /\ mappings_left = 0
    /\ exit_code = -1
    /\ tables_before = [local |-> local_table, remote |-> remote_table]
    /\ ArchiveIdle
    /\ ScanIdle
    /\ OthersIdle
    /\ tx = <<>> /\ rows = EmptyRows /\ cpc = "off"

\* compare_hourly returns Ok(diff_hours).
CompareHourly ==
    /\ ypc = "start"
    /\ diff_hours' = compare_hourly(local_table, remote_table, start_ts, end_ts)
    /\ ypc' = IF diff_hours' = <<>> THEN "done" ELSE "hours"
    /\ stats_diff_hours' = stats_diff_hours + Len(diff_hours')
    /\ UNCHANGED <<local_table, remote_table, start_ts, end_ts, diff_minutes,
                   errors, synced_records, stats_diff_minutes, diff_count, runVars,
                   nonSyncVars>>

\* One of its two queries fails: the error is recorded, the mapping is over.
CompareHourlyFails ==
    /\ ypc = "start"
    /\ errors' = Append(errors, "compare_hourly")
    /\ ypc' = "done"
    /\ UNCHANGED <<local_table, remote_table, start_ts, end_ts, diff_hours,
                   diff_minutes, synced_records, statVars, runVars,
                   nonSyncVars>>

\* compare_and_sync_minutely up to its loops: both minute-level queries
\* over the whole hour.
CompareMinutely ==
    /\ ypc = "hours"
    /\ diff_hours # <<>>
    /\ LET hs == Head(diff_hours)
           he == Head(diff_hours) + HourSecs
       IN  \E rest \in Orders(remote_only_minutes(local_table, remote_table, hs, he)) :
              diff_minutes' = local_diff_minutes(local_table, remote_table, hs, he) \o rest
    /\ diff_hours' = Tail(diff_hours)
    /\ ypc' = "minutes"
    /\ diff_count' = 0
    /\ UNCHANGED <<local_table, remote_table, start_ts, end_ts, errors,
                   synced_records, stats_diff_hours, stats_diff_minutes, runVars,
                   nonSyncVars>>

\* A minute-level query fails: Err goes to check_and_sync, which records
\* it and moves to the next hour.
CompareMinutelyFails ==
    /\ ypc = "hours"
    /\ diff_hours # <<>>
    /\ errors' = Append(errors, "compare_and_sync_minutely")
    /\ diff_hours' = Tail(diff_hours)
    /\ UNCHANGED <<local_table, remote_table, start_ts, end_ts, diff_minutes,
                   synced_records, ypc, statVars, runVars,
                   nonSyncVars>>

\* sync_minute_data for the next differing minute returns Ok(count).
SyncMinute ==
    /\ ypc = "minutes"
    /\ diff_minutes # <<>>
    /\ remote_table' = sync_minute_data(local_table, remote_table, Head(diff_minutes))
    /\ synced_records' = synced_records
          + Cardinality(InRange(local_table, Head(diff_minutes),
                                Head(diff_minutes) + MinuteSecs))
    /\ diff_minutes' = Tail(diff_minutes)
    /\ diff_count' = diff_count + 1
    /\ UNCHANGED <<local_table, start_ts, end_ts, diff_hours, errors, ypc,
                   stats_diff_hours, stats_diff_minutes, runVars,
                   nonSyncVars>>

\* The failure of sync_minute_data passed on with `?`: the rest of the
\* hour is given up.
SyncMinuteFailsReturns ==
    /\ ypc = "minutes"
    /\ diff_minutes # <<>>
    /\ errors' = Append(errors, "sync_minute_data")
    /\ diff_minutes' = <<>>
    /\ diff_count' = diff_count + 1
    /\ UNCHANGED <<local_table, remote_table, start_ts, end_ts, diff_hours,
                   synced_records, ypc, stats_diff_hours, stats_diff_minutes, runVars,
                   nonSyncVars>>

\* The count query or the INSERT fails: the error is recorded and the loop
\* goes on.
SyncMinuteFails ==
    /\ ypc = "minutes"
    /\ diff_minutes # <<>>
    /\ errors' = Append(errors, "sync_minute_data")
    /\ diff_minutes' = Tail(diff_minutes)
    /\ diff_count' = diff_count + 1
    /\ UNCHANGED <<local_table, remote_table, start_ts, end_ts, diff_hours,
                   synced_records, ypc, stats_diff_hours, stats_diff_minutes, runVars,
                   nonSyncVars>>

\* compare_and_sync_minutely returns Ok(()).
CompareMinutelyReturns ==
    /\ ypc = "minutes"
    /\ diff_minutes = <<>>
    /\ ypc' = "hours"
    /\ stats_diff_minutes' = stats_diff_minutes + diff_count
    /\ UNCHANGED <<local_table, remote_table, start_ts, end_ts, diff_hours,
                   diff_minutes, errors, synced_records, stats_diff_hours, diff_count, runVars,
                   nonSyncVars>>

\* The loop over diff_hours is over: check_and_sync returns Ok(stats).
CheckAndSyncReturns ==
    /\ ypc = "hours"
    /\ diff_hours = <<>>
    /\ ypc' = "done"
    /\ UNCHANGED <<local_table, remote_table, start_ts, end_ts, diff_hours,
                   diff_minutes, errors, synced_records, statVars, runVars,
                   nonSyncVars>>

NextSync ==
    \/ CompareHourly
    \/ CompareHourlyFails
    \/ CompareMinutely
    \/ CompareMinutelyFails
    \/ SyncMinute
    \/ SyncMinuteFails
    \/ CompareMinutelyReturns
    \/ CheckAndSyncReturns

SpecSync == InitSync /\ [][NextSync]_vars

(***************************************************************************)
(* The sync-check mode of main: check_and_sync over all table mappings,    *)
(* then the exit status                                                    *)
(***************************************************************************)
\* The table mappings of the configuration: one or two.
MappingsAfterFirst == {0, 1}

\* The tables a mapping can name: any local table, with a remote table
\* that is empty, in sync, or holds every row.
MappingTables ==
    UNION {{[local |-> L, remote |-> R] : R \in {{}, L, RowUniverse}} :
              L \in SUBSET RowUniverse}

InitSyncRun ==
    /\ \E t \in MappingTables :
          /\ local_table = t.local
          /\ remote_table = t.remote
    /\ start_ts \in WindowStarts
    /\ end_ts \in WindowEnds
    /\ diff_hours = <<>>
    /\ diff_minutes = <<>>
    /\ errors = <<>>
    /\ synced_records = 0
    /\ ypc = "start"
    /\ stats_diff_hours = 0
    /\ stats_diff_minutes = 0
    /\ diff_count = 0
    /\ mappings_left \in MappingsAfterFirst
    /\ exit_code = -1
    /\ tables_before = [local |-> local_table, remote |-> remote_table]
    /\ ArchiveIdle
    /\ ScanIdle
    /\ OthersIdle
    /\ tx = <<>> /\ rows = EmptyRows /\ cpc = "off"

\* `for (local_table, remote_table) in &self.config.table_mappings`: the
\* next mapping, over its own pair of tables.
NextMapping ==
    /\ ypc = "done"
    /\ mappings_left > 0
    /\ \E t \in MappingTables :
          /\ local_table' = t.local
          /\ remote_table' = t.remote
          /\ tables_before' = t
    /\ mappings_left' = mappings_left - 1
    /\ diff_hours' = <<>>
    /\ diff_minutes' = <<>>
    /\ ypc' = "start"
    /\ UNCHANGED <<start_ts, end_ts, errors, synced_records, statVars, exit_code,
                   nonSyncVars>>

\* check_and_sync returns Ok(stats); main returns Err when stats.errors is
\* not empty, Ok(()) otherwise.
MainReturns ==
    /\ ypc = "done"
    /\ mappings_left = 0
    /\ exit_code' = IF errors = <<>> THEN 0 ELSE 1
    /\ ypc' = "exited"
    /\ UNCHANGED <<local_table, remote_table, start_ts, end_ts, diff_hours, diff_minutes,
                   errors, synced_records, statVars, mappings_left, tables_before,
                   nonSyncVars>>

NextSyncRun ==
    \/ CompareHourly
    \/ CompareHourlyFails
    \/ CompareMinutely
    \/ CompareMinutelyFails
    \/ SyncMinute
    \/ SyncMinuteFails
    \/ CompareMinutelyReturns
    \/ CheckAndSyncReturns
    \/ NextMapping
    \/ MainReturns

SpecSyncRun == InitSyncRun /\ [][NextSyncRun]_vars

(***************************************************************************)
(* FileScanner::scan_available_files on a directory                        *)
(***************************************************************************)
ConvIdle == tx = <<>> /\ rows = EmptyRows /\ cpc = "off"

\* No squirrel component and no reconciliation pass is running.
CoreIdle ==
    /\ ConvIdle
    /\ ArchiveIdle
    /\ SyncIdle
    /\ ScanIdle
    /\ LiveIdle
    /\ BlockIdle
    /\ TrackerIdle

InitScan ==
    /\ scan_dir \in Directories(MaxEntries)
    /\ scan_result = <<>>
    /\ kpc = "start"
    /\ ConvIdle
    /\ ArchiveIdle
    /\ SyncIdle
    /\ OthersIdle

\* scan_available_files returns Ok(file_pairs).
ScanAvailableFiles ==
    /\ kpc = "start"
    /\ scan_result' \in scan_available_files(scan_dir)
    /\ kpc' = "done"
    /\ UNCHANGED <<scan_dir, nonScanVars>>

\* fs::read_dir or an entry of it fails: Err.
ScanAvailableFilesFails ==
    /\ kpc = "start"
    /\ kpc' = "error"
    /\ UNCHANGED <<scan_dir, scan_result, nonScanVars>>

NextScan ==
    \/ ScanAvailableFiles
    \/ ScanAvailableFilesFails

SpecScan == InitScan /\ [][NextScan]_vars

(***************************************************************************)
(* Live path: TransactionSubscriberService and TransactionProcessor        *)
(***************************************************************************)
BATCH_SIZE == 100

\* A bus message: whether Transaction::decode accepts the payload, and the
\* numbers of rows convert appends for the decoded transaction.
MsgUndecodable == [decodable |-> FALSE, trade |-> 0, amm_buy |-> 0]
MsgNoEvents == [decodable |-> TRUE, trade |-> 0, amm_buy |-> 0]
MsgTrade == [decodable |-> TRUE, trade |-> 1, amm_buy |-> 0]
MsgBuy == [decodable |-> TRUE, trade |-> 0, amm_buy |-> 1]
MsgBurst == [decodable |-> TRUE, trade |-> 1, amm_buy |-> BATCH_SIZE - 1]

Messages == {MsgUndecodable, MsgNoEvents, MsgTrade, MsgBuy, MsgBurst}

\* The rows of one stream extracted from message number k.
LiveGroup(k, n) == [msg |-> k, n |-> n]

\* process_transaction: the ProcessedEvents convert fills for message k.
process_transaction(k, m) ==
    [s \in Streams |->
        IF s = TradeTable /\ m.trade > 0 THEN <<LiveGroup(k, m.trade)>>
        ELSE IF s = AmmBuyTable /\ m.amm_buy > 0 THEN <<LiveGroup(k, m.amm_buy)>>
        ELSE <<>>]

\* ProcessedEvents::is_empty / BatchAccumulator::is_empty
is_empty(events) == \A s \in Streams : events[s] = <<>>

\* BatchAccumulator::add putting the new events in front.
add_in_front(b, events) == [s \in Streams |-> events[s] \o b[s]]

\* BatchAccumulator::add assigning the new events instead of extending.
add_assigning(b, events) ==
    [s \in Streams |-> IF events[s] = <<>> THEN b[s] ELSE events[s]]

\* BatchAccumulator::add
add(b, events) == [s \in Streams |-> b[s] \o events[s]]

\* BatchAccumulator::should_flush
accumulator_should_flush(b) == \E s \in Streams : BatchLen(b[s]) >= BATCH_SIZE

\* The rows an insert task of the live path writes to the store.
LiveTaskRows(t) ==
    {[table |-> t.table, msg |-> t.rows[i].msg] : i \in 1..Len(t.rows)}

\* The process ends: the channel, the accumulator and the tasks are gone.
LiveProcessGone(state) ==
    /\ lpc' = state
    /\ receiver' = <<>>
    /\ batches' = EmptyBatch
    /\ live_queued' = {}
    /\ live_active' = {}

InitLive ==
    /\ lpc = "down"
    /\ msg_no = 0
    /\ receiver = <<>>
    /\ batches = EmptyBatch
    /\ live_permits \in 1..MaxPermits
    /\ live_queued = {}
    /\ live_active = {}
    /\ live_store = {}
    /\ message = <<>>
    /\ ConvIdle
    /\ ArchiveIdle
    /\ SyncIdle
    /\ ScanIdle
    /\ BlockIdle
    /\ TrackerIdle
    /\ SyncerIdle

\* TransactionSubscriberService::new and run up to the message loop:
\* TransactionProcessor::new creates the pool and spawns batch_flusher_task.
LiveServiceNew ==
    /\ lpc \in {"down", "exited", "stopped"}
    /\ lpc' = "run"
    /\ message' = <<>>
    /\ UNCHANGED <<msg_no, receiver, batches, live_permits, live_queued,
                   live_active, live_store, nonLiveVars>>

\* One iteration of the message loop on a payload that decodes:
\* process_transaction sends the events unless there are none.
ReceiveMessage ==
    /\ lpc = "run"
    /\ msg_no < MaxMsgs
    /\ \E m \in Messages :
          /\ m.decodable
          /\ message' = <<m>>
          /\ LET events == process_transaction(msg_no + 1, m)
             IN  receiver' = IF is_empty(events) THEN receiver
                             ELSE Append(receiver, events)
    /\ msg_no' = msg_no + 1
    /\ UNCHANGED <<lpc, batches, live_permits, live_queued, live_active,
                   live_store, nonLiveVars>>

\* deserialize_transaction that gives up on the payload and lets the loop
\* go on with the next message.
ReceiveUndecodableSkips ==
    /\ lpc = "run"
    /\ msg_no < MaxMsgs
    /\ message' = <<MsgUndecodable>>
    /\ msg_no' = msg_no + 1
    /\ UNCHANGED <<lpc, receiver, batches, live_permits, live_queued, live_active,
                   live_store, nonLiveVars>>

\* deserialize_transaction on a payload that does not decode: exit(1).
ReceiveUndecodable ==
    /\ lpc = "run"
    /\ msg_no < MaxMsgs
    /\ message' = <<MsgUndecodable>>
    /\ msg_no' = msg_no + 1
    /\ LiveProcessGone("exited")
    /\ UNCHANGED <<live_permits, live_store, nonLiveVars>>

\* The subscription ends: run returns Ok and main returns.
StreamEnds ==
    /\ lpc = "run"
    /\ LiveProcessGone("stopped")
    /\ UNCHANGED <<msg_no, live_permits, live_store, message, nonLiveVars>>

\* batch_flusher_task, the receiver.recv() arm: add, then flush when
\* should_flush.
FlusherReceive ==
    /\ lpc = "run"
    /\ receiver # <<>>
    /\ receiver' = Tail(receiver)
    /\ LET b == add(batches, Head(receiver))
       IN  IF accumulator_should_flush(b)
           THEN /\ batches' = EmptyBatch
                /\ live_queued' = AsyncPoolSubmit(live_queued, live_active,
                                                  live_permits, InsertTasks(b))
           ELSE /\ batches' = b
                /\ UNCHANGED live_queued
    /\ UNCHANGED <<lpc, msg_no, live_permits, live_active, live_store, message,
                   nonLiveVars>>

\* The interval.tick() arm flushing only an accumulator that should_flush.
FlusherTickAtThresholdOnly ==
    /\ lpc = "run"
    /\ accumulator_should_flush(batches)
    /\ batches' = EmptyBatch
    /\ live_queued' = AsyncPoolSubmit(live_queued, live_active, live_permits,
                                      InsertTasks(batches))
    /\ UNCHANGED <<lpc, msg_no, receiver, live_permits, live_active, live_store,
                   message, nonLiveVars>>

\* batch_flusher_task, the interval.tick() arm with a non-empty accumulator
\* (with an empty one the arm changes nothing but the statistics).
FlusherTick ==
    /\ lpc = "run"
    /\ ~is_empty(batches)
    /\ batches' = EmptyBatch
    /\ live_queued' = AsyncPoolSubmit(live_queued, live_active, live_permits,
                                      InsertTasks(batches))
    /\ UNCHANGED <<lpc, msg_no, receiver, live_permits, live_active, live_store,
                   message, nonLiveVars>>

\* A spawned insert task acquires a permit.
LiveTaskStart(t) ==
    /\ t \in live_queued
    /\ Cardinality(live_active) < live_permits
    /\ live_queued' = live_queued \ {t}
    /\ live_active' = live_active \cup {t}
    /\ UNCHANGED <<lpc, msg_no, receiver, batches, live_permits, live_store,
                   message, nonLiveVars>>

\* The insert task writes its rows, ends the insert and releases the permit.
LiveTaskComplete(t) ==
    /\ t \in live_active
    /\ live_store' = live_store \cup LiveTaskRows(t)
    /\ live_active' = live_active \ {t}
    /\ UNCHANGED <<lpc, msg_no, receiver, batches, live_permits, live_queued,
                   message, nonLiveVars>>

\* insert / write / end fails: std::process::exit(1).
LiveTaskFails(t) ==
    /\ t \in live_active
    /\ LiveProcessGone("exited")
    /\ UNCHANGED <<msg_no, live_permits, live_store, message, nonLiveVars>>

NextLive ==
    \/ LiveServiceNew
    \/ ReceiveMessage
    \/ ReceiveUndecodable
    \/ StreamEnds
    \/ FlusherReceive
    \/ FlusherTick
    \/ \E t \in live_queued : LiveTaskStart(t)
    \/ \E t \in live_active : LiveTaskComplete(t)
    \/ \E t \in live_active : LiveTaskFails(t)

SpecLive == InitLive /\ [][NextLive]_vars

\* The live path with its flusher task scheduled: the interval fires every
\* FLUSH_INTERVAL_MS and select! polls it on every turn of the loop, so the
\* tick arm runs if it stays ready.
FairSpecLive == InitLive /\ [][NextLive]_vars /\ WF_vars(FlusherTick)

\* The squirrel binary in either of its two modes.
InitSquirrel == Init \/ InitLive

NextSquirrel == Next \/ NextLive

SpecSquirrel == InitSquirrel /\ [][NextSquirrel]_vars

(***************************************************************************)
(* FileProcessor::handle_block, one transaction at a time                  *)
(***************************************************************************)
\* A transaction of the combined block: the rows convert appends for it.
TxNoEvents == [trade |-> 0, amm_buy |-> 0]
TxTrade == [trade |-> 1, amm_buy |-> 0]
TxBuy == [trade |-> 0, amm_buy |-> 1]

BlockTransactions == {TxNoEvents, TxTrade, TxBuy}

\* The *_event_batch vectors left by the blocks handled before: every
\* vector is below batch_size, the last check having flushed otherwise.
EarlierBatches ==
    {[s \in Streams |->
        IF s = TradeTable /\ t > 0 THEN <<RowGroup(Prefix1, 0, t)>>
        ELSE IF s = AmmBuyTable /\ a > 0 THEN <<RowGroup(Prefix1, 0, a)>>
        ELSE <<>>] : t \in {0, batch_size - 1}, a \in {0, batch_size - 1}}

\* TransactionConverter::convert(tx, &mut self.*_event_batch ...) for the
\* k-th transaction of the block.
convert_into_batch(b, k, t) ==
    [s \in Streams |->
        IF s = TradeTable /\ t.trade > 0
        THEN Append(b[s], RowGroup(Prefix1, k, t.trade))
        ELSE IF s = AmmBuyTable /\ t.amm_buy > 0
        THEN Append(b[s], RowGroup(Prefix1, k, t.amm_buy))
        ELSE b[s]]

InitBlock ==
    /\ bpc = "start"
    /\ \E n \in 0..MaxTxs : block_txs \in [1..n -> BlockTransactions]
    /\ tx_i = 0
    /\ event_batch \in EarlierBatches
    /\ flushes = <<>>
    /\ ConvIdle
    /\ ArchiveIdle
    /\ SyncIdle
    /\ ScanIdle
    /\ LiveIdle
    /\ TrackerIdle
    /\ SyncerIdle

\* normalize_block is Ok and combine_block is Some: the loop starts.
NormalizeAndCombine ==
    /\ bpc = "start"
    /\ bpc' = "convert"
    /\ tx_i' = 1
    /\ UNCHANGED <<block_txs, event_batch, flushes, nonBlockVars>>

\* normalize_block is Err or combine_block is None: nothing is done.
BlockRejected ==
    /\ bpc = "start"
    /\ bpc' = "done"
    /\ UNCHANGED <<block_txs, tx_i, event_batch, flushes, nonBlockVars>>

\* One iteration of `for tx in combined_block.transactions.iter()`.
ConvertTransaction ==
    /\ bpc = "convert"
    /\ tx_i <= Len(block_txs)
    /\ event_batch' = convert_into_batch(event_batch, tx_i, block_txs[tx_i])
    /\ tx_i' = tx_i + 1
    /\ UNCHANGED <<bpc, block_txs, flushes, nonBlockVars>>

\* After the loop: check_and_flush_batches, once for the block.
CheckAndFlushBatches ==
    /\ bpc = "convert"
    /\ tx_i > Len(block_txs)
    /\ IF should_flush(event_batch)
       THEN /\ flushes' = Append(flushes, InsertTasks(event_batch))
            /\ event_batch' = EmptyBatch
       ELSE UNCHANGED <<flushes, event_batch>>
    /\ bpc' = "done"
    /\ UNCHANGED <<block_txs, tx_i, nonBlockVars>>

NextBlock ==
    \/ NormalizeAndCombine
    \/ BlockRejected
    \/ ConvertTransaction
    \/ CheckAndFlushBatches

SpecBlock == InitBlock /\ [][NextBlock]_vars

(***************************************************************************)
(* ProcessedTracker on a log file of any content                           *)
(***************************************************************************)
\* A prefix that contains the field separator.
PrefixComma == <<"a", ",", "b">>

\* The prefixes mark_as_processed and mark_batch_as_processed are called with.
MarkPrefixes == {Prefix1, Prefix3, PrefixComma}

\* The lines the log can hold before the tracker is constructed: completion
\* records (two for "1_2", with different timestamps), a record with the
\* status failed, lines of two and of one field, a comment, a blank line, a
\* line of four fields, an indented comment and a record followed by a
\* space.
LogLines ==
    {CompletionLine("t1", Prefix1),
     CompletionLine("t2", Prefix1),
     CompletionLine("t1", Prefix3),
     <<"t1", ",">> \o Prefix1 \o <<",", "failed">>,
     <<"t1", ",">> \o Prefix1,
     <<"x">>,
     <<"#", "c">>,
     <<>>,
     CompletionLine("t1", Prefix3) \o <<",", "x">>,
     <<" ", "#">> \o CompletionLine("t1", Prefix1),
     CompletionLine("t1", Prefix3) \o <<" ">>}

\* cleanup_log, reading: every line is trimmed and pushed to entries.
cleanup_entries(lines) == [i \in 1..Len(lines) |-> trim(lines[i])]

\* An entry that is blank or a comment.
is_comment_or_blank(entry) == entry = <<>> \/ starts_with(entry, "#")

\* cleanup_log, the pass over entries.iter().rev(): the prefixes of all
\* entries of two fields or more.
seen_prefixes(entries) ==
    {split(entries[i], ",")[2] :
        i \in {j \in 1..Len(entries) :
                 /\ ~is_comment_or_blank(entries[j])
                 /\ Len(split(entries[j], ",")) >= 2}}

\* cleanup_log, the forward pass: blank lines and comments are written; an
\* entry is written when its prefix is still in seen, which then loses it.
RECURSIVE write_kept(_, _)
write_kept(entries, seen) ==
    IF entries = <<>> THEN <<>>
    ELSE LET entry == Head(entries)
             parts == split(entry, ",")
         IN  IF is_comment_or_blank(entry)
             THEN <<entry>> \o write_kept(Tail(entries), seen)
             ELSE IF Len(parts) >= 2 /\ parts[2] \in seen
             THEN <<entry>> \o write_kept(Tail(entries), seen \ {parts[2]})
             ELSE write_kept(Tail(entries), seen)

\* cleanup_log: the content written to the temp file.
cleanup_log(lines) ==
    write_kept(cleanup_entries(lines), seen_prefixes(cleanup_entries(lines)))

\* The lines mark_batch_as_processed writes for prefixes.
BatchLines(prefixes) ==
    [i \in 1..Len(prefixes) |-> CompletionLine(Now, prefixes[i])]

InitTracker ==
    /\ tpc = "new"
    /\ \E n \in 0..MaxLines : log_lines \in [1..n -> LogLines]
    /\ tracker_set = {}
    /\ marked = {}
    /\ log_before = log_lines
    /\ log_tmp = <<>>
    /\ cleanups = 0
    /\ ConvIdle
    /\ ArchiveIdle
    /\ SyncIdle
    /\ ScanIdle
    /\ LiveIdle
    /\ BlockIdle
    /\ SyncerIdle

\* ProcessedTracker::load_processed_list
LoadProcessedList ==
    /\ tpc # "cleanup"
    /\ tracker_set' = load_processed_list(log_lines)
    /\ tpc' = "load"
    /\ UNCHANGED <<log_lines, marked, log_before, log_tmp, cleanups, nonTrackerVars>>

\* ProcessedTracker::mark_as_processed(prefix)
TrackerMarkAsProcessed ==
    /\ tpc # "cleanup"
    /\ Len(log_lines) < MaxLines
    /\ \E prefix \in MarkPrefixes :
          /\ log_lines' = Append(log_lines, CompletionLine(Now, prefix))
          /\ tracker_set' = tracker_set \cup {prefix}
          /\ marked' = marked \cup {prefix}
    /\ tpc' = "mark"
    /\ UNCHANGED <<log_before, log_tmp, cleanups, nonTrackerVars>>

\* ProcessedTracker::mark_batch_as_processed(prefixes)
MarkBatchAsProcessed ==
    /\ tpc # "cleanup"
    /\ \E n \in 0..(MaxLines - Len(log_lines)) :
       \E prefixes \in [1..n -> MarkPrefixes] :
          /\ log_lines' = log_lines \o BatchLines(prefixes)
          /\ tracker_set' = tracker_set \cup {prefixes[i] : i \in 1..n}
          /\ marked' = marked \cup {prefixes[i] : i \in 1..n}
    /\ tpc' = "mark_batch"
    /\ UNCHANGED <<log_before, log_tmp, cleanups, nonTrackerVars>>

\* cleanup_log up to the rename: the temp file is written.
CleanupWriteTemp ==
    /\ tpc # "cleanup"
    /\ cleanups < MaxCleanups
    /\ log_tmp' = cleanup_log(log_lines)
    /\ tpc' = "cleanup"
    /\ UNCHANGED <<log_lines, tracker_set, marked, log_before, cleanups,
                   nonTrackerVars>>

\* std::fs::rename(temp_path, &self.log_path); Ok(())
CleanupRename ==
    /\ tpc = "cleanup"
    /\ log_before' = log_lines
    /\ log_lines' = log_tmp
    /\ log_tmp' = <<>>
    /\ cleanups' = cleanups + 1
    /\ tpc' = "cleaned"
    /\ UNCHANGED <<tracker_set, marked, nonTrackerVars>>

\* The rename fails: cleanup_log returns Err, the log is as it was and the
\* temp file stays.
CleanupRenameFails ==
    /\ tpc = "cleanup"
    /\ tpc' = "cleanup_failed"
    /\ UNCHANGED <<log_lines, tracker_set, marked, log_before, log_tmp, cleanups,
                   nonTrackerVars>>

\* A tracker that loads and marks.
NextTracker ==
    \/ LoadProcessedList
    \/ TrackerMarkAsProcessed
    \/ MarkBatchAsProcessed

SpecTracker == InitTracker /\ [][NextTracker]_vars

\* A tracker that marks and cleans the log up.
NextCleanup ==
    \/ TrackerMarkAsProcessed
    \/ CleanupWriteTemp
    \/ CleanupRename
    \/ CleanupRenameFails

SpecCleanup == InitTracker /\ [][NextCleanup]_vars

(***************************************************************************)
(* RsyncTransport::sync_directory                                          *)
(***************************************************************************)
\* RsyncTransport::new
max_retries == 5
initial_retry_delay == 5

\* How one execute_rsync call can fail: the command cannot be spawned, or
\* rsync exits with a non-zero status.
RsyncErrors == {"spawn_failed", "exit_nonzero"}

\* The error value of the attempt-th call failing with error.
RsyncError(k, error) == [attempt |-> k, error |-> error]

RECURSIVE pow2(_)
pow2(n) == IF n = 0 THEN 1 ELSE 2 * pow2(n - 1)

\* A delay growing by initial_retry_delay with each retry.
retry_delay_linear(k) == initial_retry_delay * k

\* initial_retry_delay * 2u64.pow(attempt - 1): at most 5 * 2^4, far below
\* the width of u64.
retry_delay(k) == initial_retry_delay * pow2(k - 1)

\* The loop bound `0..=max_retries` taken as `0..max_retries`.
attempts_end_exclusive(k) == k >= max_retries

\* `for attempt in 0..=self.max_retries` is over.
attempts_end(k) == k > max_retries

InitTransport ==
    /\ rpc = "start"
    /\ local_dir_exists \in BOOLEAN
    /\ attempt = 0
    /\ rsync_calls = <<>>
    /\ sleeps = <<>>
    /\ last_error = <<>>
    /\ sync_result = <<>>
    /\ CoreIdle
    /\ ParquetIdle
    /\ ExtractIdle
    /\ RemoteIdle
    /\ LocalIdle
    /\ NetIdle

\* The local directory does not exist: Err at once.
SyncDirectoryNoDir ==
    /\ rpc = "start"
    /\ ~local_dir_exists
    /\ sync_result' = <<"Local directory does not exist">>
    /\ rpc' = "err"
    /\ UNCHANGED <<local_dir_exists, attempt, rsync_calls, sleeps, last_error,
                   nonTransportVars>>

\* The paths and options are built and the loop is entered.
SyncDirectoryStart ==
    /\ rpc = "start"
    /\ local_dir_exists
    /\ rpc' = "loop"
    /\ UNCHANGED <<local_dir_exists, attempt, rsync_calls, sleeps, last_error,
                   sync_result, nonTransportVars>>

\* The head of an iteration: a retry sleeps first.
AttemptBegins ==
    /\ rpc = "loop"
    /\ ~attempts_end(attempt)
    /\ sleeps' = IF attempt > 0 THEN Append(sleeps, retry_delay(attempt)) ELSE sleeps
    /\ rpc' = "exec"
    /\ UNCHANGED <<local_dir_exists, attempt, rsync_calls, last_error, sync_result,
                   nonTransportVars>>

\* execute_rsync returns Ok: sync_directory returns Ok.
ExecuteRsyncOk ==
    /\ rpc = "exec"
    /\ rsync_calls' = Append(rsync_calls, "ok")
    /\ rpc' = "ok"
    /\ UNCHANGED <<local_dir_exists, attempt, sleeps, last_error, sync_result,
                   nonTransportVars>>

\* execute_rsync returns Err: the error is kept and the loop goes on.
ExecuteRsyncErr ==
    /\ rpc = "exec"
    /\ \E error \in RsyncErrors :
          /\ rsync_calls' = Append(rsync_calls, error)
          /\ last_error' = <<RsyncError(attempt, error)>>
    /\ attempt' = attempt + 1
    /\ rpc' = "loop"
    /\ UNCHANGED <<local_dir_exists, sleeps, sync_result, nonTransportVars>>

\* After the loop: Err(last_error).
AllAttemptsFailed ==
    /\ rpc = "loop"
    /\ attempts_end(attempt)
    /\ sync_result' = IF last_error = <<>> THEN <<"Unknown error">> ELSE last_error
    /\ rpc' = "err"
    /\ UNCHANGED <<local_dir_exists, attempt, rsync_calls, sleeps, last_error,
                   nonTransportVars>>

NextTransport ==
    \/ SyncDirectoryNoDir
    \/ SyncDirectoryStart
    \/ AttemptBegins
    \/ ExecuteRsyncOk
    \/ ExecuteRsyncErr
    \/ AllAttemptsFailed

SpecTransport == InitTransport /\ [][NextTransport]_vars

(***************************************************************************)
(* The export/import chain: vec_to_arrow_batch, write_daily_parquet,       *)
(* read_parquet, arrow_batch_to_vec                                        *)
(***************************************************************************)
MaxPqRows == 3
\* Rows the record batch reader hands out per batch.
ReaderBatchSize == 2

\* Event rows, reduced to a text field and a numeric field.
PqRowValues == [signature : {"s1", "s2"}, timestamp : {0, 1}]

RECURSIVE SeqsUpTo(_, _)
SeqsUpTo(S, n) ==
    IF n = 0 THEN {<<>>}
    ELSE LET shorter == SeqsUpTo(S, n - 1)
         IN  shorter \cup {Append(q, x) : q \in {r \in shorter : Len(r) = n - 1}, x \in S}

\* to_record_batch: one column per field, one slot per row.
vec_to_arrow_batch(data) ==
    [signature |-> [i \in 1..Len(data) |-> data[i].signature],
     timestamp |-> [i \in 1..Len(data) |-> data[i].timestamp]]

num_rows(b) == Len(b.signature)

\* from_record_batch: row i is made of slot i of every column.
arrow_batch_to_vec(b) ==
    [i \in 1..num_rows(b) |-> [signature |-> b.signature[i], timestamp |-> b.timestamp[i]]]

\* ArrowWriter: write buffers a batch that has rows and ignores one that has
\* none; close writes the buffered rows as a row group.
arrow_writer(b) == IF num_rows(b) = 0 THEN <<>> ELSE <<b>>

batch_slice(b, from, to) ==
    [signature |-> SubSeq(b.signature, from, to),
     timestamp |-> SubSeq(b.timestamp, from, to)]

concat2(a, b) ==
    [signature |-> a.signature \o b.signature, timestamp |-> a.timestamp \o b.timestamp]

RECURSIVE concat_batches(_)
concat_batches(bs) ==
    IF Len(bs) = 1 THEN bs[1] ELSE concat2(bs[1], concat_batches(Tail(bs)))

\* The record batch reader cuts a row group into batches of at most
\* ReaderBatchSize rows; it never yields a batch without rows.
RECURSIVE cut_batches(_)
cut_batches(b) ==
    IF num_rows(b) = 0 THEN <<>>
    ELSE IF num_rows(b) <= ReaderBatchSize THEN <<b>>
    ELSE <<batch_slice(b, 1, ReaderBatchSize)>>
         \o cut_batches(batch_slice(b, ReaderBatchSize + 1, num_rows(b)))

RECURSIVE reader_batches(_)
reader_batches(file) ==
    IF file = <<>> THEN <<>>
    ELSE cut_batches(file[1]) \o reader_batches(Tail(file))

\* read_parquet: no batch is an error, one batch is returned as it is,
\* several are concatenated.
read_parquet(file) ==
    LET read == reader_batches(file)
    IN  IF read = <<>> THEN [ok |-> FALSE, batch |-> vec_to_arrow_batch(<<>>)]
        ELSE IF Len(read) = 1 THEN [ok |-> TRUE, batch |-> read[1]]
        ELSE [ok |-> TRUE, batch |-> concat_batches(read)]

InitParquet ==
    /\ ppc = "rows"
    /\ pq_rows \in SeqsUpTo(PqRowValues, MaxPqRows)
    /\ pq_batch = <<>>
    /\ pq_file = <<>>
    /\ pq_read = <<>>
    /\ pq_out = <<>>
    /\ CoreIdle
    /\ TransportIdle
    /\ ExtractIdle
    /\ RemoteIdle
    /\ LocalIdle
    /\ NetIdle

\* extract_daily_events: vec_to_arrow_batch(&rows)
VecToArrowBatch ==
    /\ ppc = "rows"
    /\ pq_batch' = vec_to_arrow_batch(pq_rows)
    /\ ppc' = "batch"
    /\ UNCHANGED <<pq_rows, pq_file, pq_read, pq_out, nonParquetVars>>

WriteDailyParquet ==
    /\ ppc = "batch"
    /\ pq_file' = arrow_writer(pq_batch)
    /\ ppc' = "written"
    /\ UNCHANGED <<pq_rows, pq_batch, pq_read, pq_out, nonParquetVars>>

\* import_parquet: read_parquet(file_path).await? returns the batch.
ReadParquet ==
    /\ ppc = "written"
    /\ read_parquet(pq_file).ok
    /\ pq_read' = read_parquet(pq_file)
    /\ ppc' = "read"
    /\ UNCHANGED <<pq_rows, pq_batch, pq_file, pq_out, nonParquetVars>>

\* import_parquet: read_parquet(file_path).await? returns
\* Err("Parquet file is empty") and the import fails with it.
ReadParquetFails ==
    /\ ppc = "written"
    /\ ~read_parquet(pq_file).ok
    /\ pq_read' = read_parquet(pq_file)
    /\ ppc' = "import_err"
    /\ UNCHANGED <<pq_rows, pq_batch, pq_file, pq_out, nonParquetVars>>

\* import_parquet: arrow_batch_to_vec(&batch); the rows go to the store.
ArrowBatchToVec ==
    /\ ppc = "read"
    /\ pq_out' = arrow_batch_to_vec(pq_read.batch)
    /\ ppc' = "imported"
    /\ UNCHANGED <<pq_rows, pq_batch, pq_file, pq_read, nonParquetVars>>

NextParquet ==
    \/ VecToArrowBatch
    \/ WriteDailyParquet
    \/ ReadParquet
    \/ ReadParquetFails
    \/ ArrowBatchToVec

SpecParquet == InitParquet /\ [][NextParquet]_vars

(***************************************************************************)
(* ClickHouseExtractor::extract_daily_events in the day loop of            *)
(* LocalPipeline::run                                                      *)
(*                                                                         *)
(* Seconds are counted in units of 128 s plus a remainder: every bound of  *)
(* the query is a multiple of 128 (86400 = 675 * 128, 2^32 = 2^25 * 128),  *)
(* so a timestamp compares with a bound as its count of units does.        *)
(***************************************************************************)
MaxDays == 2
MaxExRows == 2

\* 86400 seconds, in units.
DayUnits == 86400 \div 128
\* 2^32, the width of u32, in units.
U32Units == 2^25

\* A u32 timestamp of units * 128 + rest seconds.
Timestamp(units, rest) == [units |-> units, rest |-> rest]

\* date.and_hms_opt(0, 0, 0).and_utc().timestamp(): i64, in units.
midnight_timestamp(day) == day * DayUnits

\* `as u32`: truncation to 32 bits.
as_u32(units) == units % U32Units

\* The last second before a bound.
SecondBefore(units) == Timestamp(units - 1, 127)

\* Days the export starts at: before the epoch, at it, in the present, and
\* at the end of the u32 range.
StartDays == {-2, -1, 0, 20000, 49709}

\* Row timestamps around the bounds of those days, all of them u32 values.
TimestampValues ==
    {Timestamp(midnight_timestamp(d), 0) : d \in {0, 1, 20000, 20001, 49709, 49710}}
    \cup {SecondBefore(midnight_timestamp(d)) : d \in {1, 20001, 49710}}
    \cup {Timestamp(as_u32(midnight_timestamp(-2)), 0), SecondBefore(U32Units)}

\* WHERE timestamp >= start_timestamp AND timestamp < end_timestamp
query_rows(table, start_timestamp, end_timestamp) ==
    {t \in table : t.units >= start_timestamp /\ t.units < end_timestamp}

InitExtract ==
    /\ epc = "run"
    /\ overflow_checks \in BOOLEAN
    /\ ex_table \in {T \in SUBSET TimestampValues : Cardinality(T) <= MaxExRows}
    /\ ex_day \in StartDays
    /\ ex_today \in ex_day..(ex_day + MaxDays - 1)
    /\ ex_files = {}
    /\ CoreIdle
    /\ TransportIdle
    /\ ParquetIdle
    /\ RemoteIdle
    /\ LocalIdle
    /\ NetIdle

\* One turn of `while current_date <= today`: extract_daily_events, the
\* file of the day, current_date.succ_opt().
ExtractDailyEvents ==
    /\ epc = "run"
    /\ ex_day <= ex_today
    /\ LET start_timestamp == as_u32(midnight_timestamp(ex_day))
           end_timestamp == as_u32(start_timestamp + DayUnits)
       IN  /\ ~(overflow_checks /\ start_timestamp + DayUnits >= U32Units)
           /\ ex_files' = ex_files \cup
                  {[day |-> ex_day,
                    rows |-> query_rows(ex_table, start_timestamp, end_timestamp)]}
    /\ ex_day' = ex_day + 1
    /\ UNCHANGED <<epc, overflow_checks, ex_table, ex_today, nonExtractVars>>

\* `start_timestamp + 86400` overflows u32 in a build with overflow checks.
ExtractDailyEventsPanics ==
    /\ epc = "run"
    /\ ex_day <= ex_today
    /\ overflow_checks
    /\ as_u32(midnight_timestamp(ex_day)) + DayUnits >= U32Units
    /\ epc' = "panicked"
    /\ UNCHANGED <<overflow_checks, ex_table, ex_day, ex_today, ex_files, nonExtractVars>>

\* current_date > today: the table is completed.
ExportCompleted ==
    /\ epc = "run"
    /\ ex_day > ex_today
    /\ epc' = "done"
    /\ UNCHANGED <<overflow_checks, ex_table, ex_day, ex_today, ex_files, nonExtractVars>>

NextExtract ==
    \/ ExtractDailyEvents
    \/ ExtractDailyEventsPanics
    \/ ExportCompleted

SpecExtract == InitExtract /\ [][NextExtract]_vars

(***************************************************************************)
(* RemotePipeline::run                                                     *)
(***************************************************************************)
MaxFiles == 3

\* File names as sequences of symbols; ByteOf gives the first byte of each
\* symbol, which decides the order of two names (OsString comparison).
ByteOf(c) ==
    CASE c = "." -> 46
      [] c = "1" -> 49
      [] c = "2" -> 50
      [] c = "parquet" -> 112
      [] c = "txt" -> 116

FileNames ==
    {<<"1", ".", "parquet">>, <<"1", "2", ".", "parquet">>, <<"2", ".", "parquet">>,
     <<"1", ".", "txt">>}

\* Path::extension: what follows the last '.', if the name has one after
\* its first character.
extension(name) ==
    LET dots == {i \in 2..Len(name) : name[i] = "."}
    IN  IF dots = {} THEN None
        ELSE LET last == CHOOSE i \in dots : \A j \in dots : j <= i
             IN  Some(SubSeq(name, last + 1, Len(name)))

is_parquet(name) == extension(name) = Some(<<"parquet">>)

\* a < b as OsString.
RECURSIVE name_less(_, _)
name_less(a, b) ==
    IF b = <<>> THEN FALSE
    ELSE IF a = <<>> THEN TRUE
    ELSE IF ByteOf(Head(a)) # ByteOf(Head(b)) THEN ByteOf(Head(a)) < ByteOf(Head(b))
    ELSE name_less(Tail(a), Tail(b))

\* What a folder can hold: at most MaxFiles entries, each a file that
\* read_parquet accepts ("valid") or not ("invalid": not a parquet file, a
\* parquet file without rows, a directory).
FolderContents ==
    {D \in SUBSET [name : FileNames, kind : {"valid", "invalid"}] :
        /\ Cardinality(D) <= MaxFiles
        /\ \A x, y \in D : x.name = y.name => x = y}

RemoteFolders == {"f1", "f2"}

\* The event type configured for a folder: one import_parquet knows, one
\* it does not know, or no entry in table_event_mappings.
EventTypes == {"PumpfunTradeEventV2", "Bogus", "none"}

\* read_dir order kept: the entries by descending name.
entries_unsorted(D) ==
    LET names == {x.name : x \in {y \in D : is_parquet(y.name)}}
    IN  CHOOSE q \in Orders(names) :
            \A i, j \in 1..Len(q) : i < j => name_less(q[j], q[i])

\* The *.parquet entries of the folder after sort_by_key(file_name).
parquet_entries(D) ==
    LET names == {x.name : x \in {y \in D : is_parquet(y.name)}}
    IN  CHOOSE q \in Orders(names) :
            \A i, j \in 1..Len(q) : i < j => name_less(q[i], q[j])

\* The folders the storage path can show for a name.
Absent == [exists |-> FALSE, entries |-> {}]
FolderStates == {Absent} \cup {[exists |-> TRUE, entries |-> D] : D \in FolderContents}

KindOf(folder, name) ==
    (CHOOSE x \in rm_dirs[folder].entries : x.name = name).kind

InitRemote ==
    /\ mpc = "folders"
    /\ import_mappings \in (SUBSET RemoteFolders) \ {{}}
    /\ table_event_mappings \in [RemoteFolders -> EventTypes]
    /\ rm_dirs \in [RemoteFolders -> FolderStates]
    /\ \A f \in RemoteFolders \ import_mappings :
          table_event_mappings[f] = "none" /\ rm_dirs[f] = Absent
    /\ rm_todo = import_mappings
    /\ rm_folder = ""
    /\ rm_entries = <<>>
    /\ rm_imported = <<>>
    /\ rm_result = ""
    /\ CoreIdle
    /\ TransportIdle
    /\ ParquetIdle
    /\ ExtractIdle
    /\ LocalIdle
    /\ NetIdle

\* table_event_mappings.get(source_folder) is None: the run returns Err.
FolderEventTypeMissing ==
    /\ mpc = "folders"
    /\ \E f \in rm_todo :
          /\ table_event_mappings[f] = "none"
          /\ rm_folder' = f
    /\ rm_result' = "Event type not found for folder"
    /\ mpc' = "err"
    /\ UNCHANGED <<import_mappings, table_event_mappings, rm_dirs, rm_todo, rm_entries,
                   rm_imported, nonRemoteVars>>

\* !folder_path.exists(): continue.
FolderNotFound ==
    /\ mpc = "folders"
    /\ \E f \in rm_todo :
          /\ table_event_mappings[f] # "none"
          /\ ~rm_dirs[f].exists
          /\ rm_todo' = rm_todo \ {f}
    /\ UNCHANGED <<mpc, import_mappings, table_event_mappings, rm_dirs, rm_folder,
                   rm_entries, rm_imported, rm_result, nonRemoteVars>>

\* entries.is_empty(): continue.
FolderWithoutParquet ==
    /\ mpc = "folders"
    /\ \E f \in rm_todo :
          /\ table_event_mappings[f] # "none"
          /\ rm_dirs[f].exists
          /\ parquet_entries(rm_dirs[f].entries) = <<>>
          /\ rm_todo' = rm_todo \ {f}
    /\ UNCHANGED <<mpc, import_mappings, table_event_mappings, rm_dirs, rm_folder,
                   rm_entries, rm_imported, rm_result, nonRemoteVars>>

\* The folder is scanned and its parquet files are sorted.
FolderScanned ==
    /\ mpc = "folders"
    /\ \E f \in rm_todo :
          /\ table_event_mappings[f] # "none"
          /\ rm_dirs[f].exists
          /\ parquet_entries(rm_dirs[f].entries) # <<>>
          /\ rm_entries' = parquet_entries(rm_dirs[f].entries)
          /\ rm_folder' = f
    /\ mpc' = "files"
    /\ UNCHANGED <<import_mappings, table_event_mappings, rm_dirs, rm_todo, rm_imported,
                   rm_result, nonRemoteVars>>

\* import_parquet returns Ok(rows).
ImportParquet ==
    /\ mpc = "files"
    /\ rm_entries # <<>>
    /\ KindOf(rm_folder, Head(rm_entries)) = "valid"
    /\ table_event_mappings[rm_folder] = "PumpfunTradeEventV2"
    /\ rm_imported' = Append(rm_imported, <<rm_folder, Head(rm_entries)>>)
    /\ rm_entries' = Tail(rm_entries)
    /\ UNCHANGED <<mpc, import_mappings, table_event_mappings, rm_dirs, rm_todo, rm_folder,
                   rm_result, nonRemoteVars>>

\* import_parquet: read_parquet(file_path).await? fails; the run returns Err.
ImportParquetInvalidFile ==
    /\ mpc = "files"
    /\ rm_entries # <<>>
    /\ KindOf(rm_folder, Head(rm_entries)) = "invalid"
    /\ rm_result' = "invalid parquet file"
    /\ mpc' = "err"
    /\ UNCHANGED <<import_mappings, table_event_mappings, rm_dirs, rm_todo, rm_folder,
                   rm_entries, rm_imported, nonRemoteVars>>

\* import_parquet: the file is read, the event type matches no arm; the
\* run returns Err.
ImportParquetUnknownType ==
    /\ mpc = "files"
    /\ rm_entries # <<>>
    /\ KindOf(rm_folder, Head(rm_entries)) = "valid"
    /\ table_event_mappings[rm_folder] # "PumpfunTradeEventV2"
    /\ rm_result' = "Unknown event type"
    /\ mpc' = "err"
    /\ UNCHANGED <<import_mappings, table_event_mappings, rm_dirs, rm_todo, rm_folder,
                   rm_entries, rm_imported, nonRemoteVars>>

\* The inner loop is over: next folder.
FolderCompleted ==
    /\ mpc = "files"
    /\ rm_entries = <<>>
    /\ rm_todo' = rm_todo \ {rm_folder}
    /\ mpc' = "folders"
    /\ UNCHANGED <<import_mappings, table_event_mappings, rm_dirs, rm_folder, rm_entries,
                   rm_imported, rm_result, nonRemoteVars>>

\* The outer loop is over: Ok(()).
RemoteRunCompleted ==
    /\ mpc = "folders"
    /\ rm_todo = {}
    /\ rm_result' = "ok"
    /\ mpc' = "ok"
    /\ UNCHANGED <<import_mappings, table_event_mappings, rm_dirs, rm_todo, rm_folder,
                   rm_entries, rm_imported, nonRemoteVars>>

NextRemote ==
    \/ FolderEventTypeMissing
    \/ FolderNotFound
    \/ FolderWithoutParquet
    \/ FolderScanned
    \/ ImportParquet
    \/ ImportParquetInvalidFile
    \/ ImportParquetUnknownType
    \/ FolderCompleted
    \/ RemoteRunCompleted

SpecRemote == InitRemote /\ [][NextRemote]_vars

(***************************************************************************)
(* Claims about convert (checked under SpecConvert)                        *)
(***************************************************************************)
\* All rows of all eight vectors.
AllRows == UNION {{rows[s][k] : k \in 1..Len(rows[s])} : s \in Streams}

RowsAtIndex(i) == {r \in AllRows : r.instruction_index = i}

\* Positions p >= 2 (index p-1 >= 1) where instruction p is an event the
\* arm of stream s accepts together with instruction p-1, and instruction
\* p-1 is not itself an event. "Matching action" is read the way the
\* converter itself accepts a pair.
AdjacentPairs(s) ==
    {p \in 2..Len(tx) :
        /\ is_event(tx[p])
        /\ ~is_event(tx[p - 1])
        /\ EventArm(tx[p], tx[p - 1]) = s}

\* C1: after convert, every output vector holds exactly as many rows as
\* there are positions i >= 1 where instruction i is that vector's event and
\* instruction i-1 is its matching action.
C1_RowCountEqualsAdjacentPairs ==
    cpc = "done" =>
        \A s \in Streams : Len(rows[s]) = Cardinality(AdjacentPairs(s))

\* C2: of two adjacent event instructions (positions p, p+1) the second
\* one (index p) produces no row.
C2_SecondAdjacentEventNoRow ==
    cpc = "done" =>
        \A p \in 1..(Len(tx) - 1) :
            (is_event(tx[p]) /\ is_event(tx[p + 1])) => RowsAtIndex(p) = {}

\* The action payload variants the spec expects for each output vector.
ExpectedActions(s) ==
    CASE s = "pumpfun_trade_event_rows" -> {"PumpfunBuy", "PumpfunSell"}
      [] s = "pumpfun_create_event_rows" -> {"PumpfunCreate"}
      [] s = "pumpfun_migrate_event_rows" -> {"PumpfunMigrate"}
      [] s = "pumpfun_amm_buy_event_rows" -> {"PumpfunAmmBuy"}
      [] s = "pumpfun_amm_sell_event_rows" -> {"PumpfunAmmSell"}
      [] s = "pumpfun_amm_create_pool_event_rows" -> {"PumpfunAmmCreatePool"}
      [] s = "pumpfun_amm_deposit_event_rows" -> {"PumpfunAmmDeposit"}
      [] s = "pumpfun_amm_withdraw_event_rows" -> {"PumpfunAmmWithdraw"}

AmmStreams ==
    {"pumpfun_amm_buy_event_rows", "pumpfun_amm_sell_event_rows",
     "pumpfun_amm_create_pool_event_rows", "pumpfun_amm_deposit_event_rows",
     "pumpfun_amm_withdraw_event_rows"}

\* The output vector that belongs to an event tag.
StreamOfTag(type) ==
    CASE type = "PumpFunTradeEvent" -> "pumpfun_trade_event_rows"
      [] type = "PumpFunCreateEvent" -> "pumpfun_create_event_rows"
      [] type = "PumpFunMigrateEvent" -> "pumpfun_migrate_event_rows"
      [] type = "PumpFunAmmBuyEvent" -> "pumpfun_amm_buy_event_rows"
      [] type = "PumpFunAmmSellEvent" -> "pumpfun_amm_sell_event_rows"
      [] type = "PumpFunAmmCreatePoolEvent" -> "pumpfun_amm_create_pool_event_rows"
      [] type = "PumpFunAmmDepositEvent" -> "pumpfun_amm_deposit_event_rows"
      [] type = "PumpFunAmmWithdrawEvent" -> "pumpfun_amm_withdraw_event_rows"

\* The instruction a row was paired with.
PairedInstr(r) == tx[r.action_index + 1]

C4_LeadingEventNoRow ==
    cpc = "done" =>
        /\ (Len(tx) >= 1 /\ is_event(tx[1])) => RowsAtIndex(0) = {}
        /\ (Len(tx) = 0 \/ (Len(tx) = 1 /\ is_event(tx[1]))) => rows = EmptyRows

\* C4 witness: a transaction led by a well-formed event, followed by a
\* pair that does produce a row.
C4_Witness ==
    /\ cpc = "done"
    /\ Len(tx) = 3
    /\ tx[1] \in EventInstrs
    /\ RowsAtIndex(0) = {}
    /\ RowsAtIndex(2) # {}


(***************************************************************************)
(* Claims about the archive block parser and its flush pool                *)
(***************************************************************************)
\* What a tracker constructed now would report.
FreshTracker == load_processed_list(log)

\* C5: the completion record of an archive unit is written, and
\* is_processed(prefix) becomes true, only after every slot entry was
\* consumed, the residual batches were submitted and wait_all_tasks
\* returned, so every row of the unit is stored by then; the step that
\* completes the unit makes is_processed true; and while the unit is still
\* being processed (so also after a crash at that point) a fresh tracker
\* reports is_processed = false.
C5_CompletionOnlyAfterDrain ==
    /\ [](\A p \in FreshTracker : UnitRows(p) \subseteq store)
    /\ [](spc \in {"slots", "wait", "mark"} => ~is_processed(FreshTracker, cur))
    /\ [][log' # log =>
            /\ spc = "mark"
            /\ slot_i > Len(meta[cur].slots)
            /\ batch = EmptyBatch
            /\ wait_all_tasks(queued, active)
            /\ log' = Append(log, CompletionLine(Now, cur))
            /\ is_processed(processed_set', cur)
            /\ is_processed(load_processed_list(log'), cur)]_vars
    /\ [][(spc = "mark" /\ spc' = "next") => log' # log]_vars

\* The newer unit was completed with its rows stored; the process then died
\* in the middle of the older unit, part of whose rows are stored, and the
\* log has no record of it.
C5_Witness ==
    /\ spc = "down"
    /\ Prefix3 \in FreshTracker
    /\ UnitRows(Prefix3) # {}
    /\ Prefix1 \notin FreshTracker
    /\ store \cap UnitRows(Prefix1) # {}

\* C6: a prefix with a completion record in the log is never passed to
\* process_file_pair again, over any number of scans and restarts; and a
\* scan that follows a returned scan, or runs when every pair of the
\* directory has a record, returns 0.
C6_LoggedPrefixNeverReprocessed ==
    /\ [][(spc = "next" /\ spc' = "slots") => cur' \notin FreshTracker]_vars
    /\ [][(spc = "scan" /\ spc' # "down"
            /\ (result >= 0 \/ \A file_pairs \in scan_available_files(files) :
                                  \A i \in 1..Len(file_pairs) :
                                      file_pairs[i].prefix \in FreshTracker))
          => (spc' = "returned" /\ result' = 0)]_vars

\* A scan over a directory whose two pairs both have a record returned 0.
C6_Witness ==
    /\ spc = "returned"
    /\ result = 0
    /\ \E file_pairs \in scan_available_files(files) : Len(file_pairs) = 2
    /\ FreshTracker = Prefixes

\* C7: in every reachable state the number of insert tasks holding a
\* permit is at most the configured N.
C7_ActiveAtMostN == Cardinality(active) <= max_concurrent_clickhouse_tasks

\* N >= 2 tasks hold a permit while another one waits.
C7_Witness ==
    /\ max_concurrent_clickhouse_tasks >= 2
    /\ Cardinality(active) = max_concurrent_clickhouse_tasks
    /\ queued # {}

\* C8: when wait_all_tasks has returned, no task is active or queued and
\* every task submitted before the call has completed: the rows of all
\* decodable blocks of the unit are stored.
C8_WaitAllReturnsWhenDrained ==
    spc = "mark" => (queued = {} /\ active = {} /\ UnitRows(cur) \subseteq store)

\* The wait returned after at least two insert tasks of the unit completed.
C8_Witness ==
    /\ spc = "mark"
    /\ Cardinality({r.table : r \in UnitRows(cur)}) = 2
\* The rows an insert task can carry.
PossibleRows == [table : {TradeTable, AmmBuyTable}, prefix : Prefixes, slot : 1..MaxSlots]

\* C9: submit never blocks and never drops: a flush is enabled whatever the
\* number of active tasks, every task it submits is queued, and under fair
\* scheduling with terminating tasks every queued task is eventually
\* started and completed (its rows reach the store).
C9_SubmitQueuesAndEventuallyRuns ==
    /\ []((spc = "slots" /\ slot_i > Len(meta[cur].slots)) => ENABLED FlushAllBatches)
    /\ [][(spc = "slots" /\ spc' = "wait") => InsertTasks(batch) \subseteq queued']_vars
    /\ [][(spc = "slots" /\ slot_i' = slot_i + 1 /\ batch' = EmptyBatch
            /\ meta[cur].slots[slot_i].block)
          => InsertTasks(handle_block(batch, cur, slot_i, meta[cur].slots[slot_i]))
                \subseteq queued']_vars
    /\ \A r \in PossibleRows :
          (\E t \in queued : r \in TaskRows(t)) ~> (r \in store)

\* Every permit is taken and two more tasks wait behind the residual flush.
C9_Witness ==
    /\ spc = "wait"
    /\ Cardinality(active) = permits
    /\ Cardinality(queued) >= 2

(***************************************************************************)
(* Claims about the reconciliation pass                                    *)
(***************************************************************************)
\* The hour buckets that overlap the window.
WindowHours == {h \in {toStartOfHour(r.timestamp) : r \in RowUniverse} :
                  h < end_ts /\ h + HourSecs > start_ts}

\* The pass is over and its error list is empty.
PassWithoutErrors == ypc = "done" /\ errors = <<>>

\* Per hour bucket, the unique counts of the two sides inside the window.
HourCountsEqual ==
    \A h \in WindowHours :
        HourCount(local_table, start_ts, end_ts, h) = HourCount(remote_table, start_ts, end_ts, h)

\* The remote holds no row of a window hour that the local side lacks.
\* The pass only adds local rows to the remote, so this holds after the
\* pass exactly when it held before it.
RemoteWithinLocal ==
    \A h \in WindowHours :
        InRange(remote_table, h, h + HourSecs) \subseteq InRange(local_table, h, h + HourSecs)

\* C10 as stated: after a pass that ends with an empty error list, for
\* every hour bucket of the window the local and the remote unique counts
\* are equal, whichever side had missing or extra rows before.
C10_Original_CountsEqualAfterPass == PassWithoutErrors => HourCountsEqual

\* C10: after a pass that ends with an empty error list, and provided the
\* remote held no row in the hours of the window that the local side
\* lacked, for every hour bucket of the window the local and the remote
\* unique counts are equal.
C10_CountsEqualWhenRemoteWithinLocal ==
    (PassWithoutErrors /\ RemoteWithinLocal) => HourCountsEqual

\* A pass without errors replayed rows into a remote that had none beyond
\* the local ones, over a window that starts in the middle of a minute.
C10_Witness ==
    /\ PassWithoutErrors
    /\ RemoteWithinLocal
    /\ synced_records >= 2
    /\ start_ts = 30

(***************************************************************************)
(* Claims about the file scanner                                           *)
(***************************************************************************)
\* The prefixes a file name of the directory can stand for: the name
\* without its last suffix.
NamedPrefixes == {SubSeq(e.name, 1, Len(e.name) - 1) : e \in scan_dir}

\* <prefix>.meta and <prefix>.bin both exist as regular files.
BothFilesExist(prefix) ==
    /\ DirEntry(prefix \o <<".meta">>, TRUE) \in scan_dir
    /\ DirEntry(prefix \o <<".bin">>, TRUE) \in scan_dir

ReturnedPrefixes == {scan_result[i].prefix : i \in 1..Len(scan_result)}

\* C11: scan_available_files returns exactly the non-empty prefixes whose
\* .meta and .bin both exist as regular files, each once, ordered strictly
\* descending by the numeric start slot parsed from the prefix.
C11_ScanExactPairsStrictlyDescending ==
    kpc = "done" =>
        /\ ReturnedPrefixes = {p \in NamedPrefixes : p # <<>> /\ BothFilesExist(p)}
        /\ Len(scan_result) = Cardinality(ReturnedPrefixes)
        /\ \A i, j \in 1..Len(scan_result) :
              (/\ i < j
               /\ extract_start_slot(scan_result[i].prefix).some
               /\ extract_start_slot(scan_result[j].prefix).some)
              => extract_start_slot(scan_result[i].prefix).value
                    > extract_start_slot(scan_result[j].prefix).value

C13_FailedUnitLeavesTrackerUnchanged ==
    spc = "failed" =>
        /\ ~meta[cur].ok
        /\ cur \notin processed_set
        /\ cur \notin FreshTracker
        /\ \A i \in 1..Len(log) : log[i] # CompletionLine(Now, cur)
        /\ processed_set = FreshTracker
        /\ queued = {} /\ active = {} /\ batch = EmptyBatch

\* Unit "3_4" was completed and recorded, then unit "1_2" fails to open.
C13_Witness ==
    /\ spc = "failed"
    /\ cur = Prefix1
    /\ processed_set = {Prefix3}
    /\ log = <<CompletionLine(Now, Prefix3)>>

\* ---- C14 ----
\* C14: a slot entry that cannot be used (offset None, failing seek or
\* read, zstd or Block decode failure) skips only that entry: the loop
\* moves on to the next entry of the same unit without an error, every
\* entry has been visited and the rows of every decodable block of the
\* unit, those after a skipped entry included, are stored when
\* process_file_pair returns Ok, and the Ok arm then records the unit.
C14_SkippedEntrySkipsOnlyItself ==
    /\ [][(spc = "slots" /\ slot_i <= Len(meta[cur].slots)
            /\ ~meta[cur].slots[slot_i].block /\ spc' \notin {"down", "exited"})
           => /\ spc' = "slots"
              /\ cur' = cur
              /\ batch' = batch
              /\ slot_i' \in {slot_i, slot_i + 1}]_vars
    /\ [](spc = "mark" =>
            /\ slot_i = Len(meta[cur].slots) + 1
            /\ UnitRows(cur) \subseteq store)
    /\ [][(spc = "mark" /\ spc' \notin {"down", "exited"})
           => (spc' = "next" /\ is_processed(load_processed_list(log'), cur))]_vars

\* Unit "3_4" has a skipped first entry and a decodable second one; the
\* rows of the second are stored and the unit is recorded as completed.
C14_Witness ==
    /\ spc = "next"
    /\ cur = Prefix3
    /\ meta[Prefix3].slots = <<SlotSkipped, SlotSmallBlock>>
    /\ [table |-> TradeTable, prefix |-> Prefix3, slot |-> 2] \in store
    /\ is_processed(FreshTracker, Prefix3)

(***************************************************************************)
(* Claims about fatal errors on both paths (checked under SpecSquirrel)    *)
(***************************************************************************)
\* C15: a failure to open, write or close an insert session in a flush
\* task, and a failure to decode a live bus message, terminate the process.
\* A task leaves the pool only with its rows written or with the process
\* gone; an undecodable message leaves the process exited; the exited
\* process has no task, no batch, no queued events and no pending pair; and
\* neither the step that exits nor anything after it in that process writes
\* a row, takes a message or appends a completion record.
C15_FatalFailureTerminates ==
    /\ [][\A t \in active : t \notin active' =>
            (TaskRows(t) \subseteq store' \/ spc' \in {"down", "exited"})]_vars
    /\ [][\A t \in live_active : t \notin live_active' =>
            (LiveTaskRows(t) \subseteq live_store' \/ lpc' \in {"exited", "stopped"})]_vars
    /\ []((message # <<>> /\ ~message[1].decodable) => lpc = "exited")
    /\ [](spc = "exited" =>
            (queued = {} /\ active = {} /\ batch = EmptyBatch /\ pending = <<>>))
    /\ [](lpc = "exited" =>
            (live_queued = {} /\ live_active = {} /\ is_empty(batches)
             /\ receiver = <<>>))
    /\ [][(spc = "exited" \/ spc' = "exited") => (log' = log /\ store' = store)]_vars
    /\ [][(lpc = "exited" \/ lpc' = "exited") => live_store' = live_store]_vars
    /\ [][lpc = "exited" => msg_no' = msg_no]_vars

\* The first message was stored, the second did not decode: the process
\* has exited with nothing left in flight.
C15_Witness ==
    /\ lpc = "exited"
    /\ message = <<MsgUndecodable>>
    /\ msg_no = 2
    /\ live_store # {}

(***************************************************************************)
(* Claims about the batch threshold (checked under SpecBlock)              *)
(***************************************************************************)
\* C16: when adding one transaction's rows makes a stream of the
\* accumulator reach the threshold, the flush happens on that same call,
\* so that between the additions of two transactions, and after the block,
\* no stream holds batch_size rows or more.
C16_NoStreamAtThresholdBetweenTransactions ==
    ((bpc = "convert" /\ 1 < tx_i /\ tx_i <= Len(block_txs)) \/ bpc = "done")
        => \A s \in Streams : BatchLen(event_batch[s]) < batch_size

(***************************************************************************)
(* Claims about the processed tracker (SpecCleanup, SpecTracker)           *)
(***************************************************************************)
\* The entries of a log that carry a prefix: not blank, not a comment, two
\* fields or more.
HasPrefix(entry) ==
    /\ ~is_comment_or_blank(entry)
    /\ Len(split(entry, ",")) >= 2

EntryPrefix(entry) == split(entry, ",")[2]

PositionsOf(entries, prefix) ==
    {i \in 1..Len(entries) : HasPrefix(entries[i]) /\ EntryPrefix(entries[i]) = prefix}

Last(S) == CHOOSE i \in S : \A j \in S : j <= i

\* C17: cleanup_log leaves exactly one entry for every prefix of the log,
\* and that entry is the prefix's most recent one, its last occurrence in
\* the file as it was before the cleanup.
C17_CleanupKeepsMostRecentEntry ==
    tpc = "cleaned" =>
        LET before == cleanup_entries(log_before)
        IN  \A prefix \in seen_prefixes(before) :
               /\ Cardinality(PositionsOf(log_lines, prefix)) = 1
               /\ \A i \in PositionsOf(log_lines, prefix) :
                     log_lines[i] = before[Last(PositionsOf(before, prefix))]

\* C18: cleanup_log does not change what a fresh load_processed_list
\* yields: the set loaded from the cleaned log equals the set loaded from
\* the log as it was before.
C18_CleanupKeepsMembership ==
    tpc = "cleaned" =>
        load_processed_list(log_lines) = load_processed_list(log_before)

\* C19 as stated: a prefix is in the set exactly when some line of the log
\* is not blank, does not start with '#' and has three comma-separated
\* fields the third of which is "completed".
C19_Original_ThreeFieldsOfTheLine ==
    tpc = "load" =>
        tracker_set =
            {split(log_lines[i], ",")[2] :
                i \in {j \in 1..Len(log_lines) :
                         /\ trim(log_lines[j]) # <<>>
                         /\ ~starts_with(log_lines[j], "#")
                         /\ Len(split(log_lines[j], ",")) = 3
                         /\ split(log_lines[j], ",")[3] = <<"completed">>}}

\* The fields of the lines of the log, trimmed.
FieldsOfLog ==
    UNION {{split(trim(log_lines[i]), ",")[k] :
              k \in 1..Len(split(trim(log_lines[i]), ","))} : i \in 1..Len(log_lines)}

\* C19: after load_processed_list a prefix is in the set if and only if
\* some line of the log, once trimmed, is not empty, does not start with
\* '#' and has at least three comma-separated fields with the prefix as the
\* second and "completed" as the third; whatever the set held before the
\* load is gone.
C19_LoadAcceptsTrimmedLinesOfThreeOrMoreFields ==
    tpc = "load" =>
        /\ tracker_set \subseteq FieldsOfLog
        /\ \A prefix \in FieldsOfLog \cup marked :
              prefix \in tracker_set <=>
                 \E i \in 1..Len(log_lines) :
                    LET line == trim(log_lines[i])
                        parts == split(line, ",")
                    IN  /\ line # <<>>
                        /\ ~starts_with(line, "#")
                        /\ Len(parts) >= 3
                        /\ parts[2] = prefix
                        /\ parts[3] = <<"completed">>

\* A log whose only line for "3_4" has four fields, loaded after "a,b" was
\* marked: the set holds "3_4", and "a,b", which it held before the load,
\* is gone from it.
C19_Witness ==
    /\ tpc = "load"
    /\ log_lines = <<CompletionLine("t1", Prefix3) \o <<",", "x">>,
                     CompletionLine(Now, PrefixComma)>>
    /\ marked = {PrefixComma}
    /\ tracker_set = {Prefix3}

\* C20: on a log that was empty at the start, after any sequence of
\* mark_as_processed and mark_batch_as_processed calls a fresh tracker that
\* loads the log reports exactly the marked prefixes.
C20_FreshLoadYieldsExactlyMarked ==
    log_before = <<>> => load_processed_list(log_lines) = marked

(***************************************************************************)
(* Claims about the file transfer (checked under SpecTransport)            *)
(***************************************************************************)
\* C21 as stated: one sync_directory call invokes the file-sync tool at
\* most 5 times.
C21_Original_AtMostFiveInvocations == Len(rsync_calls) <= 5

\* C21: one sync_directory call invokes the file-sync tool at most
\* max_retries + 1 = 6 times, the first attempt and up to five retries; it
\* returns an error after invocations only when all six failed, and the
\* error returned is that of the last, sixth, attempt.
C21_AtMostSixInvocationsLastErrorReturned ==
    /\ Len(rsync_calls) <= max_retries + 1
    /\ (rpc = "err" /\ local_dir_exists) =>
          /\ Len(rsync_calls) = max_retries + 1
          /\ \A i \in 1..Len(rsync_calls) : rsync_calls[i] # "ok"
          /\ sync_result = <<RsyncError(max_retries, rsync_calls[max_retries + 1])>>

\* Six invocations failed, the last one differently from the one before:
\* the call has returned the error of the sixth.
C21_Witness ==
    /\ rpc = "err"
    /\ Len(rsync_calls) = 6
    /\ rsync_calls[5] = "spawn_failed"
    /\ rsync_calls[6] = "exit_nonzero"
    /\ sync_result = <<RsyncError(5, "exit_nonzero")>>

(***************************************************************************)
(* Claims about the export/import chain (checked under SpecParquet)        *)
(***************************************************************************)
\* C22: for every row sequence, the empty one included, rows -> columnar
\* batch -> write_daily_parquet -> read_parquet -> rows succeeds and yields
\* the same rows in the same order.
C22_ExportImportChainLossless ==
    /\ ppc # "import_err"
    /\ ppc = "imported" => pq_out = pq_rows

\* The chain applied to sequences that have rows: whenever it ends, it ends
\* with the rows it started from.
C22_ChainLosslessOnRows ==
    pq_rows # <<>> =>
        /\ ppc # "import_err"
        /\ ppc = "imported" => pq_out = pq_rows

(***************************************************************************)
(* Claims about the daily export (checked under SpecExtract)               *)
(***************************************************************************)
\* The timestamp lies in the day: day*86400 <= timestamp < (day+1)*86400.
InDay(t, day) ==
    /\ midnight_timestamp(day) <= t.units
    /\ t.units < midnight_timestamp(day + 1)

\* Every exported day holds exactly the rows of that day, and no row is in
\* two files.
DaysExact ==
    /\ epc # "panicked"
    /\ \A f \in ex_files : f.rows = {t \in ex_table : InDay(t, f.day)}
    /\ \A t \in ex_table : Cardinality({f \in ex_files : t \in f.rows}) <= 1

\* C23: extract_daily_events(table, type, day) selects exactly the rows
\* with day*86400 <= timestamp < (day+1)*86400, so over consecutive
\* exported days every row falls into exactly one day's file.
C23_DaySelectsExactlyItsRows == DaysExact

\* The same for the days that lie wholly within the u32 range,
\* 1970-01-01 to 2106-02-06.
C23_ExactForDaysWithinU32 ==
    (ex_day >= 0 /\ ex_today < 49710 /\ \A f \in ex_files : f.day >= 0) => DaysExact

(***************************************************************************)
(* Claims about the remote pipeline (checked under SpecRemote)             *)
(***************************************************************************)
\* The names of the files imported from a folder, in import order.
ImportedNames(f) ==
    LET of_folder(x) == x[1] = f
        picked == SelectSeq(rm_imported, of_folder)
    IN  [i \in 1..Len(picked) |-> picked[i][2]]

\* The names of the *.parquet entries of a folder.
ParquetNames(f) ==
    {x.name : x \in {y \in rm_dirs[f].entries :
                        /\ Len(y.name) >= 3
                        /\ y.name[Len(y.name) - 1] = "."
                        /\ y.name[Len(y.name)] = "parquet"}}

IdenticalBefore ==
    InRange(tables_before.local, start_ts, end_ts)
        = InRange(tables_before.remote, start_ts, end_ts)

\* No replay and no write: both tables are as they were and the counters
\* of the statistics are zero.
NothingReplayed ==
    /\ local_table = tables_before.local
    /\ remote_table = tables_before.remote
    /\ stats_diff_hours = 0
    /\ stats_diff_minutes = 0
    /\ synced_records = 0

FailureStep ==
    errors' # errors =>
        /\ Len(errors') = Len(errors) + 1
        /\ SubSeq(errors', 1, Len(errors)) = errors
        /\ mappings_left' = mappings_left
        /\ exit_code' = -1
        /\ \/ /\ ypc = "start"
              /\ errors'[Len(errors')] = "compare_hourly"
              /\ ypc' = "done"
           \/ /\ ypc = "hours"
              /\ errors'[Len(errors')] = "compare_and_sync_minutely"
              /\ diff_hours' = Tail(diff_hours)
              /\ ypc' = "hours"
           \/ /\ ypc = "minutes"
              /\ errors'[Len(errors')] = "sync_minute_data"
              /\ diff_hours' = diff_hours
              /\ diff_minutes' = Tail(diff_minutes)
              /\ ypc' = "minutes"

\* The process exits only when no mapping, hour or minute is left, and
\* with a non-zero status exactly when errors were recorded.
ExitStep ==
    exit_code' # exit_code =>
        /\ mappings_left = 0
        /\ diff_hours = <<>>
        /\ diff_minutes = <<>>
        /\ errors' = errors
        /\ (exit_code' # 0) <=> (errors # <<>>)

\* C26: in a reconciliation run a failed hour-level comparison of one
\* mapping, a failed minute-level comparison of one hour and a failed
\* replay of one minute each add one entry to stats.errors, and the run
\* continues with the next mapping, hour or minute; the program exits
\* non-zero if and only if stats.errors is non-empty at the end.
C26_FailuresRecordedRunContinues == [][FailureStep /\ ExitStep]_vars

\* The hour-level comparison of the first mapping failed; in the second
\* mapping the replay of one minute failed and a later minute was
\* replayed; the process has exited with a non-zero status.
C26_Witness ==
    /\ ypc = "exited"
    /\ exit_code = 1
    /\ errors = <<"compare_hourly", "sync_minute_data">>
    /\ synced_records > 0
    /\ stats_diff_minutes = 2

(***************************************************************************)
(* Claims about the rows of one transaction (checked under SpecConvert)    *)
(***************************************************************************)
\* The event tag whose rows go to a stream.
TagOfStream(s) ==
    CASE s = "pumpfun_trade_event_rows" -> "PumpFunTradeEvent"
      [] s = "pumpfun_create_event_rows" -> "PumpFunCreateEvent"
      [] s = "pumpfun_migrate_event_rows" -> "PumpFunMigrateEvent"
      [] s = "pumpfun_amm_buy_event_rows" -> "PumpFunAmmBuyEvent"
      [] s = "pumpfun_amm_sell_event_rows" -> "PumpFunAmmSellEvent"
      [] s = "pumpfun_amm_create_pool_event_rows" -> "PumpFunAmmCreatePoolEvent"
      [] s = "pumpfun_amm_deposit_event_rows" -> "PumpFunAmmDepositEvent"
      [] s = "pumpfun_amm_withdraw_event_rows" -> "PumpFunAmmWithdrawEvent"

\* C27: every row convert appends for one transaction carries
\* instruction_index equal to the zero-based position of the event
\* instruction (not of its action), and within each output stream the rows
\* appear in strictly increasing instruction_index order.
C27_RowIndexIsEventPositionAscending ==
    cpc = "done" =>
        \A s \in Streams :
            /\ \A i \in 1..Len(rows[s]) :
                  /\ rows[s][i].instruction_index \in 0..(Len(tx) - 1)
                  /\ tx[rows[s][i].instruction_index + 1].type = TagOfStream(s)
                  /\ rows[s][i].instruction_index # rows[s][i].action_index
            /\ \A i, j \in 1..Len(rows[s]) :
                  i < j => rows[s][i].instruction_index < rows[s][j].instruction_index

\* Two trade events after two buys: each row carries the position of its
\* event, the second one paired with the first buy.
C27_Witness ==
    /\ cpc = "done"
    /\ rows["pumpfun_trade_event_rows"] = <<EventRow(2, 1), EventRow(3, 0)>>

\* C28: within one transaction each instruction index yields at most one
\* row across all eight streams; signature, slot and transaction_index
\* being those of the transaction, no two of its rows share the composite
\* key (signature, slot, transaction_index, instruction_index).
C28_OneRowPerInstructionIndex ==
    cpc = "done" =>
        \A s, t \in Streams : \A i \in 1..Len(rows[s]) : \A j \in 1..Len(rows[t]) :
            rows[s][i].instruction_index = rows[t][j].instruction_index
                => (s = t /\ i = j)

\* A transaction with rows in two streams: a trade at index 1 and a create
\* at index 3.
C28_Witness ==
    /\ cpc = "done"
    /\ rows["pumpfun_trade_event_rows"] = <<EventRow(1, 0)>>
    /\ rows["pumpfun_create_event_rows"] = <<EventRow(3, 2)>>

(***************************************************************************)
(* Claims about the flush (checked under SpecSquirrel)                     *)
(***************************************************************************)
\* The tasks a step hands to the pool of the archive path, of the live path.
NewTasks == queued' \ queued
NewLiveTasks == live_queued' \ live_queued

\* The vectors a flushing step of the archive path takes: the batch fields,
\* after handle_block when the step is an iteration of the slot loop.
TakenBatch ==
    IF slot_i' # slot_i
    THEN handle_block(batch, cur, slot_i, meta[cur].slots[slot_i])
    ELSE batch

\* The step takes the first ProcessedEvents off the channel.
RecvArm == receiver # <<>> /\ receiver' = Tail(receiver)

\* The accumulator a flushing step of the live path takes: after add when
\* the step is the recv arm.
TakenAccumulator ==
    IF RecvArm THEN add(batches, Head(receiver)) ELSE batches

\* The tasks are one per non-empty sequence of b, each for its own table
\* with the whole sequence, and none for an empty one.
OneTaskPerNonEmpty(tasks, b) ==
    \A s \in Streams :
        {t \in tasks : t.table = s} =
            IF b[s] = <<>> THEN {} ELSE {[table |-> s, rows |-> b[s]]}

\* An iteration of the slot loop whose block brings a vector to batch_size.
SlotReachesThreshold ==
    /\ spc = "slots" /\ spc' = "slots" /\ slot_i' # slot_i
    /\ meta[cur].slots[slot_i].block
    /\ should_flush(TakenBatch)

\* The recv arm after whose add a sequence is at BATCH_SIZE.
RecvReachesThreshold ==
    /\ lpc = "run" /\ lpc' = "run" /\ RecvArm
    /\ accumulator_should_flush(TakenAccumulator)

\* C29: whenever one of the eight accumulator sequences reaches the
\* threshold, the flush takes all eight: after it every sequence is empty,
\* every sequence that was non-empty has been submitted as exactly one pool
\* task for its table, and no task is submitted for an empty sequence. This
\* holds of every flush, on the archive path and on the live path.
C29_FlushTakesAllEight ==
    [][/\ SlotReachesThreshold => NewTasks # {}
       /\ RecvReachesThreshold => NewLiveTasks # {}
       /\ NewTasks # {} =>
             /\ batch' = EmptyBatch
             /\ OneTaskPerNonEmpty(NewTasks, TakenBatch)
       /\ NewLiveTasks # {} =>
             /\ batches' = EmptyBatch
             /\ OneTaskPerNonEmpty(NewLiveTasks, TakenAccumulator)]_vars

\* The live accumulator was flushed when the buy sequence reached
\* BATCH_SIZE: the trade row of the same message, far below the threshold,
\* went to the pool in a task of its own and the accumulator is empty.
C29_Witness ==
    /\ lpc = "run"
    /\ batches = EmptyBatch
    /\ \E t \in live_queued : \E u \in live_queued :
          /\ t.table = AmmBuyTable /\ BatchLen(t.rows) >= BATCH_SIZE
          /\ u.table = TradeTable /\ BatchLen(u.rows) < BATCH_SIZE
          /\ u.rows[Len(u.rows)].msg = t.rows[Len(t.rows)].msg

\* The rows held in the eight vectors of the archive path, of the live path.
VectorRows(b) == UNION {TaskRows([table |-> s, rows |-> b[s]]) : s \in Streams}
LiveVectorRows(b) == UNION {LiveTaskRows([table |-> s, rows |-> b[s]]) : s \in Streams}

\* The rows held by the tasks of the two pools.
PoolRows == UNION {TaskRows(t) : t \in queued \cup active}
LivePoolRows == UNION {LiveTaskRows(t) : t \in live_queued \cup live_active}

\* The rows waiting in the events channel.
ChannelRows == UNION {LiveVectorRows(receiver[i]) : i \in 1..Len(receiver)}

\* A row is in one place only: the channel, the accumulator or one task of
\* the pool, and a row the store has is in none of them (live path, where
\* every message is extracted once).
RowInOnePlace ==
    /\ spc # "off" =>
          /\ VectorRows(batch) \cap PoolRows = {}
          /\ \A t \in queued \cup active :
                /\ Cardinality(TaskRows(t)) = Len(t.rows)
                /\ \A u \in (queued \cup active) \ {t} :
                      TaskRows(t) \cap TaskRows(u) = {}
    /\ lpc # "off" =>
          /\ ChannelRows \cap LiveVectorRows(batches) = {}
          /\ (ChannelRows \cup LiveVectorRows(batches))
                \cap (LivePoolRows \cup live_store) = {}
          /\ LivePoolRows \cap live_store = {}
          /\ \A t \in live_queued \cup live_active :
                /\ Cardinality(LiveTaskRows(t)) = Len(t.rows)
                /\ \A u \in (live_queued \cup live_active) \ {t} :
                      LiveTaskRows(t) \cap LiveTaskRows(u) = {}

\* process_file_pair has drained the batch fields before wait_all_tasks:
\* every row of the unit is with the pool or already in the store.
DrainedBeforeWait ==
    spc \in {"wait", "mark"} =>
        /\ batch = EmptyBatch
        /\ UnitRows(cur) \subseteq PoolRows \cup store

\* A step of the running process leaves no row behind: a task leaves the
\* pool only with its rows in the store, vectors change only by gaining
\* rows or by handing all of them to the pool, the channel gives its rows
\* to the accumulator, the rows of a message just extracted are in the
\* channel, and a step that hands tasks to a pool hands it every row of
\* the vectors and empties them.
NoRowLeftBehind ==
    /\ (spc' \notin {"down", "stopped", "exited", "off"} /\ spc # "off") =>
          /\ store \subseteq store'
          /\ \A t \in (queued \cup active) \ (queued' \cup active') :
                TaskRows(t) \subseteq store'
          /\ batch' # batch =>
                VectorRows(batch) \subseteq
                    VectorRows(batch') \cup UNION {TaskRows(t) : t \in NewTasks}
          /\ NewTasks # {} =>
                /\ VectorRows(TakenBatch) = UNION {TaskRows(t) : t \in NewTasks}
                /\ batch' = EmptyBatch
    /\ (lpc = "run" /\ lpc' = "run") =>
          /\ live_store \subseteq live_store'
          /\ \A t \in (live_queued \cup live_active) \ (live_queued' \cup live_active') :
                LiveTaskRows(t) \subseteq live_store'
          /\ (batches' # batches \/ receiver' # receiver) =>
                ChannelRows \cup LiveVectorRows(batches) \subseteq
                    ChannelRows' \cup LiveVectorRows(batches')
                    \cup UNION {LiveTaskRows(t) : t \in NewLiveTasks}
          /\ msg_no' # msg_no =>
                LiveVectorRows(process_transaction(msg_no', message'[1]))
                    \subseteq ChannelRows'
          /\ NewLiveTasks # {} =>
                /\ LiveVectorRows(TakenAccumulator)
                      = UNION {LiveTaskRows(t) : t \in NewLiveTasks}
                /\ batches' = EmptyBatch

\* C30: every row produced by the extractor is handed to the flush pool in
\* exactly one flush task: a flush moves the whole accumulator out and
\* leaves it empty, so no row is submitted twice and none is left behind,
\* and on the archive path the rows remaining at the end of a unit are
\* drained before wait_all_tasks is called.
C30_EachRowInExactlyOneFlushTask ==
    /\ [](RowInOnePlace /\ DrainedBeforeWait)
    /\ [][NoRowLeftBehind]_vars

\* The archive path waits for the pool with the batch fields empty after
\* the final drain handed over rows that never reached the threshold.
C30_Witness ==
    /\ spc = "wait"
    /\ batch = EmptyBatch
    /\ \E t \in queued \cup active :
          /\ BatchLen(t.rows) < batch_size
          /\ TaskRows(t) \subseteq UnitRows(cur)

(***************************************************************************)
(* Claims about the interval tick (checked under FairSpecLive)             *)
(***************************************************************************)
\* C31: on the live path every row appended to the accumulator is submitted
\* to the flush pool no later than the next interval tick, even when no
\* stream reaches the threshold: with the flusher task scheduled fairly, a
\* non-empty accumulator is eventually emptied, and a step of the running
\* process that empties it hands every row it held to the pool. (The
\* accumulator of a process that ends is dropped with it.)
C31_NonEmptyAccumulatorEventuallyFlushed ==
    /\ (lpc = "run" /\ ~is_empty(batches)) ~> is_empty(batches)
    /\ [][(~is_empty(batches) /\ is_empty(batches') /\ lpc' = "run")
            => LiveVectorRows(batches) \subseteq LivePoolRows']_vars

\* One trade row, far below the threshold, was flushed by the tick: it is
\* the only row extracted so far and it is with the pool.
C31_Witness ==
    /\ lpc = "run"
    /\ msg_no = 1
    /\ batches = EmptyBatch
    /\ live_queued = {[table |-> TradeTable, rows |-> <<LiveGroup(1, 1)>>]}

(***************************************************************************)
(* Claims about row order on the live path (checked under SpecLive)        *)
(***************************************************************************)
\* The rows of a vector come from ever later messages.
InMessageOrder(groups) ==
    \A i \in 1..Len(groups) : \A j \in 1..Len(groups) :
        i < j => groups[i].msg < groups[j].msg

\* C32: within one flush task of one table the rows are written in the
\* order they were inserted into the accumulator, which is the order in
\* which the producer handed the transactions to the pipeline: the rows of
\* a task, of an accumulator sequence and of the channel are in message
\* order, the channel holding later messages than the accumulator, and a
\* flush hands each sequence to its task as it is. (The rows of one message
\* are one group here; their order is that of convert.)
C32_TaskRowsInArrivalOrder ==
    /\ [](/\ \A t \in live_queued \cup live_active : InMessageOrder(t.rows)
          /\ \A s \in Streams :
                /\ InMessageOrder(batches[s])
                /\ \A i \in 1..Len(receiver) : \A j \in 1..Len(receiver) :
                      i < j => InMessageOrder(receiver[i][s] \o receiver[j][s])
                /\ \A i \in 1..Len(receiver) :
                      InMessageOrder(batches[s] \o receiver[i][s]))
    /\ [][\A t \in NewLiveTasks : t.rows = TakenAccumulator[t.table]]_vars

\* A task holding the trade rows of two messages, the earlier one first.
C32_Witness ==
    /\ lpc = "run"
    /\ [table |-> TradeTable, rows |-> <<LiveGroup(1, 1), LiveGroup(2, 1)>>]
          \in live_queued \cup live_active

(***************************************************************************)
(* Claims about the retry schedule (checked under SpecTransport)           *)
(***************************************************************************)
\* C33: sync_directory waits 5*2^(k-1) seconds before retry k (5, 10, 20,
\* 40, 80 s), performs at most 5 retries after the initial attempt, returns
\* success at the first successful attempt without any further invocation,
\* and fails immediately without invoking the tool when the local directory
\* does not exist.
C33_RetrySchedule ==
    /\ sleeps = SubSeq(<<5, 10, 20, 40, 80>>, 1, Len(sleeps))
    /\ Len(sleeps) = IF rpc = "exec" THEN Len(rsync_calls)
                     ELSE IF rsync_calls = <<>> THEN 0
                     ELSE Len(rsync_calls) - 1
    /\ Len(rsync_calls) <= 1 + 5
    /\ \A i \in 1..Len(rsync_calls) :
          rsync_calls[i] = "ok" => (i = Len(rsync_calls) /\ rpc = "ok")
    /\ rpc = "ok" => rsync_calls[Len(rsync_calls)] = "ok"
    /\ ~local_dir_exists =>
          /\ rsync_calls = <<>> /\ sleeps = <<>>
          /\ rpc \in {"start", "err"}
          /\ rpc = "err" => sync_result = <<"Local directory does not exist">>

\* The fifth retry succeeded, after waits of 5, 10, 20, 40 and 80 seconds.
C33_Witness ==
    /\ rpc = "ok"
    /\ Len(rsync_calls) = 6
    /\ sleeps = <<5, 10, 20, 40, 80>>

(***************************************************************************)
(* LocalPipeline::run                                                      *)
(***************************************************************************)
MaxTables == 2

\* The first day of the export.
StartTimes == {1, 2}

\* One step of the day loop for a table and a day, and whether it
\* returned Ok.
Step(table, day, step, ok) == [table |-> table, day |-> day, step |-> step, ok |-> ok]

\* The run is at `step` of the current day and performs it.
Performs(step, ok) == steps' = Append(steps, Step(tables_left, current_date, step, ok))

\* run has started: today = Utc::now().date_naive(), the configuration read.
InitLocal ==
    /\ opc = "table"
    /\ steps = <<>>
    /\ CoreIdle
    /\ TransportIdle
    /\ ParquetIdle
    /\ ExtractIdle
    /\ RemoteIdle
    /\ NetIdle
    /\ tables_left \in 0..MaxTables
    /\ start_time \in StartTimes
    /\ current_date = start_time
    /\ today \in (start_time - 1)..(start_time + MaxDays - 1)

\* `for table in self.config.tables`: the event type is found, the day
\* loop starts at start_time.
RunTableBegins ==
    /\ opc = "table"
    /\ tables_left > 0
    /\ current_date' = start_time
    /\ opc' = "day"
    /\ UNCHANGED <<tables_left, start_time, today, steps, nonLocalVars>>

\* table_event_mappings has no entry for the table: `?` returns the error.
RunEventTypeMissing ==
    /\ opc = "table"
    /\ tables_left > 0
    /\ opc' = "err"
    /\ UNCHANGED <<tables_left, start_time, current_date, today, steps, nonLocalVars>>

\* The table loop is over: Ok(()).
RunCompleted ==
    /\ opc = "table"
    /\ tables_left = 0
    /\ opc' = "ok"
    /\ UNCHANGED <<tables_left, start_time, current_date, today, steps, nonLocalVars>>

\* 1. extract_daily_events(table, event_type, current_date).await?
RunExtract ==
    /\ opc = "day"
    /\ current_date <= today
    /\ \E ok \in BOOLEAN :
          /\ Performs("extract", ok)
          /\ opc' = IF ok THEN "write" ELSE "err"
    /\ UNCHANGED <<tables_left, start_time, current_date, today, nonLocalVars>>

\* `while current_date <= today` is over: the next table.
RunTableCompleted ==
    /\ opc = "day"
    /\ current_date > today
    /\ tables_left' = tables_left - 1
    /\ opc' = "table"
    /\ UNCHANGED <<start_time, current_date, today, steps, nonLocalVars>>

\* 2. write_daily_parquet(table, current_date, batch, path).await?
RunWrite ==
    /\ opc = "write"
    /\ \E ok \in BOOLEAN :
          /\ Performs("write", ok)
          /\ opc' = IF ok THEN "sync" ELSE "err"
    /\ UNCHANGED <<tables_left, start_time, current_date, today, nonLocalVars>>

\* sync_directory fails and the run goes on to delete the file.
RunSyncIgnoringFailure ==
    /\ opc = "sync"
    /\ \E ok \in BOOLEAN :
          /\ Performs("transfer", ok)
          /\ opc' = "remove"
    /\ UNCHANGED <<tables_left, start_time, current_date, today, nonLocalVars>>

\* 3. transport.sync_directory(&table_dir, &remote_server).await?
RunSync ==
    /\ opc = "sync"
    /\ \E ok \in BOOLEAN :
          /\ Performs("transfer", ok)
          /\ opc' = IF ok THEN "remove" ELSE "err"
    /\ UNCHANGED <<tables_left, start_time, current_date, today, nonLocalVars>>

\* 4. std::fs::remove_file(&file_path)?, then current_date.succ_opt()
\* (which has a value for every date up to today).
RunRemove ==
    /\ opc = "remove"
    /\ \E ok \in BOOLEAN :
          /\ Performs("delete", ok)
          /\ opc' = IF ok THEN "day" ELSE "err"
          /\ current_date' = IF ok THEN current_date + 1 ELSE current_date
    /\ UNCHANGED <<tables_left, start_time, today, nonLocalVars>>

NextLocal ==
    \/ RunTableBegins
    \/ RunEventTypeMissing
    \/ RunCompleted
    \/ RunExtract
    \/ RunTableCompleted
    \/ RunWrite
    \/ RunSync
    \/ RunRemove

SpecLocal == InitLocal /\ [][NextLocal]_vars

(***************************************************************************)
(* Claims about LocalPipeline::run (checked under SpecLocal)               *)
(***************************************************************************)
\* The step that may follow step a: the next of the four for the same table
\* and day, and after a delete the extract of the next day (up to today) or
\* of the first day of the next table (after today's delete).
FollowsInOrder(a, b) ==
    CASE a.step = "extract" -> b.step = "write" /\ b.table = a.table /\ b.day = a.day
      [] a.step = "write" -> b.step = "transfer" /\ b.table = a.table /\ b.day = a.day
      [] a.step = "transfer" -> b.step = "delete" /\ b.table = a.table /\ b.day = a.day
      [] a.step = "delete" ->
            /\ b.step = "extract"
            /\ \/ b.table = a.table /\ b.day = a.day + 1
               \/ b.table = a.table - 1 /\ a.day = today /\ b.day = start_time

\* C34: LocalPipeline::run processes, for each table, the days from
\* start_time to today inclusive in ascending order, and for each day
\* performs extract, write, transfer and delete strictly in this order,
\* completing all four before the next day starts; a day's local file is
\* deleted only after its transfer succeeded, and the failure of any step
\* aborts the run without processing later days or tables.
C34_DaysInOrderFourStepsAbortOnFailure ==
    /\ \A i \in 1..Len(steps) :
          /\ steps[i].day \in start_time..today
          /\ i = 1 => steps[i].step = "extract" /\ steps[i].day = start_time
          /\ i < Len(steps) => steps[i].ok /\ FollowsInOrder(steps[i], steps[i + 1])
          /\ ~steps[i].ok => opc = "err"
    /\ (opc = "ok" /\ steps # <<>>) =>
          LET last == steps[Len(steps)]
          IN  last.step = "delete" /\ last.ok /\ last.day = today /\ last.table = 1
    /\ (opc = "ok" /\ steps = <<>>) => (start_time > today \/ tables_left = 0)
    /\ opc = "ok" => tables_left = 0

\* Two tables of two days each went through their four steps and the run
\* returned Ok.
C34_Witness ==
    /\ opc = "ok"
    /\ Len(steps) = 16
    /\ steps[8] = Step(2, start_time + 1, "delete", TRUE)
    /\ steps[9] = Step(1, start_time, "extract", TRUE)

(***************************************************************************)
(* Claims about the reconciliation window (checked under SpecSync)         *)
(***************************************************************************)
\* C35: every minute replayed by a reconciliation pass lies inside the
\* window [start_ts, end_ts): no INSERT ... SELECT is issued for a minute
\* newer than the end or older than the start of the window, even when a
\* boundary falls in the middle of a differing hour. Hence every row the
\* pass writes to the remote table has its timestamp in the window.
C35_ReplayedRowsInsideWindow ==
    \A r \in remote_table \ tables_before.remote :
        r.timestamp >= start_ts /\ r.timestamp < end_ts

(***************************************************************************)
(* The archive service in watch mode, restarted after each failure         *)
(***************************************************************************)
InitWatch == Init /\ enable_watch

\* The steps of the service, of its pool, the failure of a unit and the
\* restart that follows; the store accepts every insert and the process is
\* not killed.
NextWatch ==
    \/ ServiceNew
    \/ ScanPending
    \/ OpenFilePair
    \/ OpenFilePairFails
    \/ PanicOnFailedPair
    \/ ReturnCount
    \/ ProcessSlot
    \/ FlushAllBatches
    \/ ProcessFilePairReturns
    \/ MarkAsProcessed
    \/ SleepThenScan
    \/ PoolStep

\* The runtime schedules the service and every spawned task, and a
\* supervisor starts the service again whenever it is down.
FairSpecWatch ==
    /\ InitWatch
    /\ [][NextWatch]_vars
    /\ WF_vars(NextWatch)
    /\ WF_vars(\E t \in queued : TaskStart(t))
    /\ WF_vars(\E t \in active : TaskComplete(t))

\* Both files of the unit are in the directory and its .meta decodes.
WellFormedUnit(p) ==
    /\ DirEntry(p \o <<".meta">>, TRUE) \in files
    /\ DirEntry(p \o <<".bin">>, TRUE) \in files
    /\ meta[p].ok

\* The unit has its completion record in the log.
MarkedCompleted(p) == \E i \in 1..Len(log) : log[i] = CompletionLine(Now, p)

\* C36: in watch mode, under fair scheduling and with no store failure,
\* every unit of the data directory whose files are well-formed is
\* eventually processed and marked completed, even when another unit of
\* the directory has a permanently undecodable .meta file and the service
\* is restarted after each failure.
C36_WellFormedUnitEventuallyCompleted ==
    \A p \in Prefixes : WellFormedUnit(p) ~> MarkedCompleted(p)

(***************************************************************************)
(* The live subscriber shut down by the holder of the service              *)
(***************************************************************************)
\* TransactionSubscriberService::shutdown: processor.wait_all_tasks() and
\* nothing else.  The call returns once the pool has no waiting or running
\* task; the spawned flusher, its channel and its accumulator are not
\* consulted.
Shutdown ==
    /\ lpc = "run"
    /\ wait_all_tasks(live_queued, live_active)
    /\ lpc' = "returned"
    /\ UNCHANGED <<msg_no, receiver, batches, live_permits, live_queued,
                   live_active, live_store, message, nonLiveVars>>

\* The holder of the service calls process_transaction for some messages
\* and then shutdown; the flusher and the insert tasks run meanwhile, and
\* the store accepts every insert.
NextShutdown ==
    \/ LiveServiceNew
    \/ ReceiveMessage
    \/ FlusherReceive
    \/ FlusherTick
    \/ \E t \in live_queued : LiveTaskStart(t)
    \/ \E t \in live_active : LiveTaskComplete(t)
    \/ Shutdown

SpecShutdown == InitLive /\ [][NextShutdown]_vars

MaxSignals == 3
MaxAuthority == 1

\* The telepath names in use.
Telepaths == {"a", "b"}
\* MisakaSignal.authority
Authorities == 0..MaxAuthority

\* format!("telepath_{}", name)
stream_name(telepath) == <<"telepath_", telepath>>

\* format!("{}.lv{}", stream_name, signal.authority), as its tokens
emit_subject(telepath, authority) == <<stream_name(telepath), <<"lv", authority>>>>

\* create_telepath: subjects: vec![format!("{}.>", stream_name)]
StreamSubjects(stream) == {<<stream, ">">>}

\* The bus matches a subject against a pattern token by token; ">" as the
\* last token of the pattern stands for one or more tokens.
SubjectMatches(subject, pattern) ==
    /\ Len(subject) >= Len(pattern)
    /\ pattern[Len(pattern)] = ">"
    /\ \A i \in 1..(Len(pattern) - 1) : subject[i] = pattern[i]

\* signal.encode_to_vec() and a payload that is no MisakaSignal.
SignalPayload(authority) == [decodable |-> TRUE, authority |-> authority]
RawPayload == [decodable |-> FALSE, authority |-> 0]

\* jetstream.publish: every stream with a matching subject stores the message.
Publish(subject, payload) ==
    js_stream' =
        [st \in DOMAIN js_stream |->
            IF \E pattern \in StreamSubjects(st) : SubjectMatches(subject, pattern)
            THEN Append(js_stream[st], [subject |-> subject, payload |-> payload])
            ELSE js_stream[st]]

\* The number of messages the bus holds.
RECURSIVE StoredCount(_)
StoredCount(sts) ==
    IF sts = {} THEN 0
    ELSE LET st == CHOOSE x \in sts : TRUE
         IN  Len(js_stream[st]) + StoredCount(sts \ {st})

\* A handler call and an ack call on message k of the consumer.
HandlerCall(k, ok) == [op |-> "handler", seq |-> k, ok |-> ok]
AckCall(k) == [op |-> "ack", seq |-> k, ok |-> TRUE]

\* MisakaNetwork::new and create_telepath for every name in use.
InitNet ==
    /\ npc = "connected"
    /\ js_stream = [st \in {stream_name(t) : t \in Telepaths} |-> <<>>]
    /\ sub_name = ""
    /\ delivered = 0
    /\ calls = <<>>
    /\ CoreIdle
    /\ TransportIdle
    /\ ParquetIdle
    /\ ExtractIdle
    /\ RemoteIdle
    /\ LocalIdle

\* emit_signal
EmitSignal ==
    /\ npc # "off"
    /\ StoredCount(DOMAIN js_stream) < MaxSignals
    /\ \E t \in Telepaths, a \in Authorities :
          Publish(emit_subject(t, a), SignalPayload(a))
    /\ UNCHANGED <<npc, sub_name, delivered, calls, nonNetVars>>

\* Another client of the bus publishes bytes that are no MisakaSignal on a
\* subject of a telepath.
ForeignPublish ==
    /\ npc # "off"
    /\ StoredCount(DOMAIN js_stream) < MaxSignals
    /\ \E t \in Telepaths : Publish(<<stream_name(t), <<"raw">>>>, RawPayload)
    /\ UNCHANGED <<npc, sub_name, delivered, calls, nonNetVars>>

\* subscribe_telepath up to its loop: the consumer and its message stream.
SubscribeTelepath ==
    /\ npc = "connected"
    /\ \E t \in Telepaths : sub_name' = t
    /\ npc' = "subscribed"
    /\ UNCHANGED <<js_stream, delivered, calls, nonNetVars>>

\* The next message of the consumer, if the stream holds one.
HasNext == npc = "subscribed" /\ delivered < Len(js_stream[stream_name(sub_name)])
NextMsg == js_stream[stream_name(sub_name)][delivered + 1]

\* One turn of the loop: the payload decodes, the handler returns Ok, the
\* message is acknowledged (a failed ack is only printed).
HandlerOk ==
    /\ HasNext
    /\ NextMsg.payload.decodable
    /\ delivered' = delivered + 1
    /\ calls' = calls \o <<HandlerCall(delivered + 1, TRUE), AckCall(delivered + 1)>>
    /\ UNCHANGED <<npc, js_stream, sub_name, nonNetVars>>

\* The handler returns Err: the message is acknowledged and the error
\* returned.
HandlerErr ==
    /\ HasNext
    /\ NextMsg.payload.decodable
    /\ delivered' = delivered + 1
    /\ calls' = calls \o <<HandlerCall(delivered + 1, FALSE), AckCall(delivered + 1)>>
    /\ npc' = "handler_err"
    /\ UNCHANGED <<js_stream, sub_name, nonNetVars>>

\* MisakaSignal::decode(..)? fails: the error is returned at once.
DecodeFails ==
    /\ HasNext
    /\ ~NextMsg.payload.decodable
    /\ delivered' = delivered + 1
    /\ npc' = "decode_err"
    /\ UNCHANGED <<js_stream, sub_name, calls, nonNetVars>>

\* messages.next() yields an error: `msg?` returns it.
MessageError ==
    /\ npc = "subscribed"
    /\ npc' = "stream_err"
    /\ UNCHANGED <<js_stream, sub_name, delivered, calls, nonNetVars>>

\* messages.next() yields None: Ok(()).
MessagesEnd ==
    /\ npc = "subscribed"
    /\ npc' = "ok"
    /\ UNCHANGED <<js_stream, sub_name, delivered, calls, nonNetVars>>

NextNet ==
    \/ EmitSignal
    \/ ForeignPublish
    \/ SubscribeTelepath
    \/ HandlerOk
    \/ HandlerErr
    \/ DecodeFails
    \/ MessageError
    \/ MessagesEnd

SpecNet == InitNet /\ [][NextNet]_vars

\* The handler calls among the calls made so far.
HandlerCalls == SelectSeq(calls, LAMBDA c : c.op = "handler")

\* C38: subscribe_telepath invokes the handler once per received message in
\* delivery order, acknowledges every message whose handler was invoked
\* (whether it returned Ok or Err), and on the first handler error returns
\* that error without invoking the handler for any later message; signals
\* are published on subject telepath_<name>.lv<authority> of stream
\* telepath_<name>.
C38_HandlerOncePerMessageAckedStopsOnError ==
    /\ npc # "off" =>
        /\ Len(HandlerCalls) = delivered
        /\ \A i \in 1..Len(HandlerCalls) : HandlerCalls[i].seq = i
        /\ \A i \in 1..Len(calls) :
              calls[i].op = "handler" =>
                  /\ i < Len(calls)
                  /\ calls[i + 1] = AckCall(calls[i].seq)
                  /\ ~calls[i].ok => (i + 1 = Len(calls) /\ npc = "handler_err")
        /\ \A t \in Telepaths :
              \A i \in 1..Len(js_stream[stream_name(t)]) :
                  LET m == js_stream[stream_name(t)][i]
                  IN  m.payload.decodable =>
                          m.subject = emit_subject(t, m.payload.authority)

====
